---- MODULE Spec2Model ----
(***************************************************************************)
(* gobit: the bencode codec (pkg/bencode/bencode.go) and the torrent       *)
(* metainfo parser (internal/torrent/parser.go) as a state machine.        *)
(*                                                                         *)
(* A byte is its numeric value 0..255.  A byte sequence (a Go string, a    *)
(* []byte, a buffer, a reader's content) is held as its runs: a sequence   *)
(* of <<byte, count>> pairs, count >= 1, neighbouring runs of different    *)
(* bytes, so that equal byte sequences are equal values and a payload of   *)
(* ten megabytes is one run.  BLen, BAt, BAppend, BCat and BSlice are      *)
(* len(s), s[i], append, concatenation and s[from:from+n] on it.           *)
(* A bencode Value carries its Go dynamic type as a tag:                   *)
(*   [t |-> "s", v |-> bytes]      string  (ByteString)                    *)
(*   [t |-> "i", v |-> n]          int64   (Integer)                       *)
(*   [t |-> "l", v |-> <<...>>]    []Value (List)                          *)
(*   [t |-> "d", v |-> f]          map[string]Value (Dictionary), f a      *)
(*                                 function from byte strings to Values    *)
(* An error value is a record with a msg field; NoErr is Go's nil error.   *)
(***************************************************************************)
EXTENDS Integers, Sequences, FiniteSets, TLC

VARIABLES
    data,   \* the bytes handed to Decode or Parse (the reader's / the file's content),
            \* or what the buffer handed to EncodeTo holds before the call
    wire,   \* the <<key, value>> tokens a dictionary input was assembled from, else <<>>;
            \* parser: the bytes of the file after its root value
    val,    \* the Value handed to Encode
    seed,   \* which iteration order the Go runtime gives `range` over a map
    pc,     \* codec: "value" | "encoded" | "input" | "decoded" | "buffer" | "written";
            \* parser: "file" | "nofile" | "parsed" | "asked";
            \* decoder by steps: "decoding" | "stepped"
    out,    \* what Encode returned: [bytes, err]; after EncodeTo, the buffer and the error;
            \* parser: what IsMultiFile returned: [multi]
    res,    \* what Decode returned and the reader afterwards: [val, err, pos, rest]
    tor,    \* what Parse returned: [file, err, stdout]
    dec     \* Decode under way: its reader, the loop it is in, that loop's locals,
            \* and the lists and dictionaries it is inside of

vars == <<data, wire, val, seed, pc, out, res, tor, dec>>

----------------------------------------------------------------------------
(* Bytes the code names *)

ChI == 105
ChL == 108
ChD == 100
ChE == 101
Ch0 == 48
Ch9 == 57
ChColon == 58
ChMinus == 45
ChPlus == 43

IsDigit(b) == b >= Ch0 /\ b <= Ch9

----------------------------------------------------------------------------
(* Byte sequences *)

RECURSIVE BLen(_)
BLen(s) == IF Len(s) = 0 THEN 0 ELSE s[1][2] + BLen(Tail(s))

\* the i-th byte, i in 1..BLen(s)
RECURSIVE BAt(_, _)
BAt(s, i) == IF i <= s[1][2] THEN s[1][1] ELSE BAt(Tail(s), i - s[1][2])

BAppend(s, b) ==
    IF Len(s) > 0 /\ s[Len(s)][1] = b
    THEN [s EXCEPT ![Len(s)] = <<b, s[Len(s)][2] + 1>>]
    ELSE Append(s, <<b, 1>>)

BCat(a, b) ==
    IF Len(a) > 0 /\ Len(b) > 0 /\ a[Len(a)][1] = b[1][1]
    THEN (SubSeq(a, 1, Len(a) - 1) \o <<<<b[1][1], a[Len(a)][2] + b[1][2]>>>>) \o Tail(b)
    ELSE a \o b

RECURSIVE BDrop(_, _)
BDrop(s, k) ==
    IF k = 0 \/ Len(s) = 0 THEN s
    ELSE IF s[1][2] > k THEN <<<<s[1][1], s[1][2] - k>>>> \o Tail(s)
    ELSE BDrop(Tail(s), k - s[1][2])

RECURSIVE BTake(_, _)
BTake(s, n) ==
    IF n = 0 \/ Len(s) = 0 THEN <<>>
    ELSE IF s[1][2] >= n THEN <<<<s[1][1], n>>>>
    ELSE <<s[1]>> \o BTake(Tail(s), n - s[1][2])

\* the n bytes after the first `from` bytes
BSlice(s, from, n) == BTake(BDrop(s, from), n)

\* the byte sequence with the bytes q[1], q[2], ...
RECURSIVE Bytes(_)
Bytes(q) == IF Len(q) = 0 THEN <<>> ELSE BAppend(Bytes(SubSeq(q, 1, Len(q) - 1)), q[Len(q)])

\* n bytes b
Run(b, n) == IF n = 0 THEN <<>> ELSE <<<<b, n>>>>

----------------------------------------------------------------------------
(* Values and errors *)

ByteString(b) == [t |-> "s", v |-> b]
Integer(n) == [t |-> "i", v |-> n]
List(xs) == [t |-> "l", v |-> xs]
Dictionary(f) == [t |-> "d", v |-> f]
Nil == [t |-> "nil"]
EmptyMap == [k \in {} |-> Nil]

NoErr == [msg |-> "nil"]
EOF == [msg |-> "EOF"]
ErrUnexpectedEOF == [msg |-> "unexpected EOF"]

\* byte-wise lexicographic order of Go strings (the < of sort.Strings)
RECURSIVE LexLess(_, _)
LexLess(a, b) ==
    IF Len(b) = 0 THEN FALSE
    ELSE IF Len(a) = 0 THEN TRUE
    ELSE IF a[1][1] # b[1][1] THEN a[1][1] < b[1][1]
    ELSE LET m == IF a[1][2] < b[1][2] THEN a[1][2] ELSE b[1][2]
         IN  LexLess(BDrop(a, m), BDrop(b, m))

----------------------------------------------------------------------------
(* strconv *)

RECURSIVE DigitsValue(_)
DigitsValue(s) ==
    IF BLen(s) = 0 THEN 0
    ELSE 10 * DigitsValue(BTake(s, BLen(s) - 1)) + (BAt(s, BLen(s)) - Ch0)

StripZeros(s) ==
    IF Len(s) > 0 /\ s[1][1] = Ch0
    THEN (IF Len(s) = 1 THEN <<<<Ch0, 1>>>> ELSE Tail(s))
    ELSE s

\* the decimal digits of 2^63 - 1 and of 2^63
MaxInt64Digits == Bytes(<<57,50,50,51,51,55,50,48,51,54,56,53,52,55,55,53,56,48,55>>)
MinInt64Digits == Bytes(<<57,50,50,51,51,55,50,48,51,54,56,53,52,55,55,53,56,48,56>>)

OutOfRange(digits, neg) ==
    LET d == StripZeros(digits)
        lim == IF neg THEN MinInt64Digits ELSE MaxInt64Digits
    IN  BLen(d) > BLen(lim) \/ (BLen(d) = BLen(lim) /\ LexLess(lim, d))

\* strconv.ParseInt(s, 10, 64): an optional sign '+' or '-', then one or more
\* decimal digits, the value within int64
ParseInt(s) ==
    LET signed == Len(s) > 0 /\ s[1][1] \in {ChPlus, ChMinus}
        neg == Len(s) > 0 /\ s[1][1] = ChMinus
        digits == IF signed THEN BDrop(s, 1) ELSE s
    IN  IF Len(s) = 0 \/ Len(digits) = 0 \/ \E k \in 1..Len(digits) : ~IsDigit(digits[k][1])
        THEN [n |-> 0, err |-> [msg |-> "strconv.ParseInt: invalid syntax", num |-> s]]
        ELSE IF OutOfRange(digits, neg)
        THEN [n |-> 0, err |-> [msg |-> "strconv.ParseInt: value out of range", num |-> s]]
        ELSE [n |-> IF neg THEN 0 - DigitsValue(digits) ELSE DigitsValue(digits),
              err |-> NoErr]

RECURSIVE FormatUint(_)
FormatUint(n) ==
    IF n < 10 THEN Run(Ch0 + n, 1) ELSE BAppend(FormatUint(n \div 10), Ch0 + (n % 10))

\* strconv.AppendInt(nil, n, 10)
AppendInt(n) == IF n < 0 THEN BCat(Run(ChMinus, 1), FormatUint(0 - n)) ELSE FormatUint(n)

----------------------------------------------------------------------------
(* Decoding *)

\* a bytes.Reader: the bytes not read yet and the offset of the next one
NewReader(b) == [rest |-> b, off |-> 0]
AtEOF(r) == Len(r.rest) = 0
\* the byte ReadByte returns, and the reader after it
NextByte(r) == r.rest[1][1]
Advance(r) == [rest |-> BDrop(r.rest, 1), off |-> r.off + 1]

\* a decoder's return: the value (Nil on failure), the error, and the reader
\* afterwards: pos its offset, rest its unread bytes
Ok(v, r) == [val |-> v, err |-> NoErr, pos |-> r.off, rest |-> r.rest]
Fail(e, r) == [val |-> Nil, err |-> e, pos |-> r.off, rest |-> r.rest]
ReaderOf(result) == [rest |-> result.rest, off |-> result.pos]

MaxByteStringLength == 10 * 1024 * 1024

\* the loop of decodeByteString that collects the length up to ':'
RECURSIVE readLength(_, _)
readLength(r, buffer) ==
    IF AtEOF(r) THEN [err |-> EOF, buffer |-> buffer, r |-> r]
    ELSE IF NextByte(r) = ChColon
         THEN [err |-> NoErr, buffer |-> buffer, r |-> Advance(r)]
         ELSE readLength(Advance(r), BAppend(buffer, NextByte(r)))

\* a read that returns the bytes there are, however few, without an error
ReadFullShortAccepted(r, n) ==
    LET byteString == BTake(r.rest, n)
        after == [rest |-> BDrop(r.rest, n), off |-> r.off + BLen(byteString)]
    IN  Ok(ByteString(byteString), after)

\* io.ReadFull(r, make([]byte, n))
ReadFull(r, n) ==
    LET byteString == BTake(r.rest, n)
        got == BLen(byteString)
        after == [rest |-> BDrop(r.rest, n), off |-> r.off + got]
    IN  IF got = n THEN Ok(ByteString(byteString), after)
        ELSE Fail(IF got = 0 THEN EOF ELSE ErrUnexpectedEOF, after)

\* decodeByteString with the limit test written >= instead of >
decodeByteStringStrictLimit(r, firstDigit) ==
    LET len == readLength(r, Run(firstDigit, 1))
        byteStringLength == ParseInt(len.buffer)
    IN  IF len.err # NoErr THEN Fail(len.err, len.r)
        ELSE IF byteStringLength.err # NoErr THEN Fail(byteStringLength.err, len.r)
        ELSE IF byteStringLength.n >= MaxByteStringLength
        THEN Fail([msg |-> "byte string length too large", n |-> byteStringLength.n],
                  len.r)
        ELSE ReadFull(len.r, byteStringLength.n)

\* decodeByteString with the limit tested only after the payload was read
decodeByteStringLimitAfterRead(r, firstDigit) ==
    LET len == readLength(r, Run(firstDigit, 1))
        byteStringLength == ParseInt(len.buffer)
        read == ReadFull(len.r, byteStringLength.n)
    IN  IF len.err # NoErr THEN Fail(len.err, len.r)
        ELSE IF byteStringLength.err # NoErr THEN Fail(byteStringLength.err, len.r)
        ELSE IF read.err # NoErr THEN read
        ELSE IF byteStringLength.n > MaxByteStringLength
        THEN Fail([msg |-> "byte string length too large", n |-> byteStringLength.n],
                  ReaderOf(read))
        ELSE read

decodeByteString(r, firstDigit) ==
    LET len == readLength(r, Run(firstDigit, 1))
        byteStringLength == ParseInt(len.buffer)
    IN  IF len.err # NoErr THEN Fail(len.err, len.r)
        ELSE IF byteStringLength.err # NoErr THEN Fail(byteStringLength.err, len.r)
        ELSE IF byteStringLength.n > MaxByteStringLength
        THEN Fail([msg |-> "byte string length too large", n |-> byteStringLength.n],
                  len.r)
        ELSE ReadFull(len.r, byteStringLength.n)

\* integerLoop without the test for a leading zero
RECURSIVE integerLoopNoLeadingZeroTest(_, _, _)
integerLoopNoLeadingZeroTest(r, buffer, first) ==
    IF AtEOF(r) THEN [err |-> EOF, buffer |-> buffer, r |-> r]
    ELSE LET digit == NextByte(r)
             r1 == Advance(r)
         IN  IF first /\ AtEOF(r1)
             THEN [err |-> [msg |-> "error peeking second digit: EOF"],
                   buffer |-> buffer, r |-> r1]
             ELSE IF first /\ digit = ChMinus /\ NextByte(r1) = Ch0
             THEN [err |-> [msg |-> "negative zero in integer"],
                   buffer |-> buffer, r |-> Advance(r1)]
             ELSE IF digit = ChE
             THEN [err |-> NoErr, buffer |-> buffer, r |-> r1]
             ELSE integerLoopNoLeadingZeroTest(r1, BAppend(buffer, digit), FALSE)

\* the loop of decodeInteger: the bytes up to 'e', the first one checked
\* together with the byte after it
RECURSIVE integerLoop(_, _, _)
integerLoop(r, buffer, first) ==
    IF AtEOF(r) THEN [err |-> EOF, buffer |-> buffer, r |-> r]
    ELSE LET digit == NextByte(r)
             r1 == Advance(r)
         IN  IF first /\ AtEOF(r1)
             THEN [err |-> [msg |-> "error peeking second digit: EOF"],
                   buffer |-> buffer, r |-> r1]
             ELSE IF first /\ digit = ChMinus /\ NextByte(r1) = Ch0
             THEN [err |-> [msg |-> "negative zero in integer"],
                   buffer |-> buffer, r |-> Advance(r1)]
             ELSE IF first /\ digit = Ch0 /\ NextByte(r1) # ChE
             THEN [err |-> [msg |-> "leading zero in integer"],
                   buffer |-> buffer, r |-> Advance(r1)]
             ELSE IF digit = ChE
             THEN [err |-> NoErr, buffer |-> buffer, r |-> r1]
             ELSE integerLoop(r1, BAppend(buffer, digit), FALSE)

decodeInteger(r) ==
    LET loop == integerLoop(r, <<>>, TRUE)
        n == ParseInt(loop.buffer)
    IN  IF loop.err # NoErr THEN Fail(loop.err, loop.r)
        ELSE IF Len(loop.buffer) = 0 THEN Fail([msg |-> "empty integer"], loop.r)
        ELSE IF n.err # NoErr THEN Fail(n.err, loop.r)
        ELSE Ok(Integer(n.n), loop.r)

\* a map assignment that leaves a key already present as it is
MapPutKeepFirst(values, key, value) ==
    [k \in (DOMAIN values) \cup {key} |-> IF k \in DOMAIN values THEN values[k] ELSE value]

\* values[key] = value on a Go map
MapPut(values, key, value) ==
    [k \in (DOMAIN values) \cup {key} |-> IF k = key THEN value ELSE values[k]]

\* an error for an invalid prefix that does not say which byte it was
invalidPrefixUnnamed(delimiter, r) ==
    Fail([msg |-> "invalid bencode prefix"], r)

\* the default case of parseBencode, r the reader after the delimiter
invalidPrefix(delimiter, r) ==
    Fail([msg |-> "invalid bencode prefix", byte |-> delimiter], r)

RECURSIVE parseBencode(_), listLoop(_, _), dictionaryLoop(_, _)

parseBencode(r) ==
    IF AtEOF(r) THEN Fail(EOF, r)
    ELSE LET delimiter == NextByte(r) IN
         IF delimiter = ChI THEN decodeInteger(Advance(r))
         ELSE IF IsDigit(delimiter) THEN decodeByteString(Advance(r), delimiter)
         ELSE IF delimiter = ChL THEN listLoop(Advance(r), <<>>)
         ELSE IF delimiter = ChD THEN dictionaryLoop(Advance(r), EmptyMap)
         ELSE invalidPrefix(delimiter, Advance(r))

\* a loop that takes the end of the input for the end of the list
listLoopOpenEnded(r, values) ==
    IF AtEOF(r) \/ NextByte(r) = ChE
    THEN Ok(List(values), IF AtEOF(r) THEN r ELSE Advance(r))
    ELSE LET element == parseBencode(r) IN
         IF element.err # NoErr THEN element
         ELSE listLoop(ReaderOf(element), Append(values, element.val))

\* the loop of decodeList
listLoop(r, values) ==
    IF AtEOF(r) THEN Fail(EOF, r)
    ELSE IF NextByte(r) = ChE THEN Ok(List(values), Advance(r))
    ELSE LET element == parseBencode(r) IN
         IF element.err # NoErr THEN element
         ELSE listLoop(ReaderOf(element), Append(values, element.val))

\* the loop of decodeDictionary without the test of the key's type: an entry
\* whose key is not a string is read and dropped
RECURSIVE dictionaryLoopAnyKey(_, _)
dictionaryLoopAnyKey(r, values) ==
    IF AtEOF(r) THEN Fail(EOF, r)
    ELSE IF NextByte(r) = ChE THEN Ok(Dictionary(values), Advance(r))
    ELSE LET key == parseBencode(r) IN
         IF key.err # NoErr THEN key
         ELSE LET value == parseBencode(ReaderOf(key)) IN
              IF value.err # NoErr THEN value
              ELSE dictionaryLoopAnyKey(ReaderOf(value),
                       IF key.val.t = "s" THEN MapPut(values, key.val.v, value.val)
                       ELSE values)

\* the loop of decodeDictionary
dictionaryLoop(r, values) ==
    IF AtEOF(r) THEN Fail(EOF, r)
    ELSE IF NextByte(r) = ChE THEN Ok(Dictionary(values), Advance(r))
    ELSE LET key == parseBencode(r) IN
         IF key.err # NoErr THEN key
         ELSE IF key.val.t # "s"
         THEN Fail([msg |-> "dictionary key is not a string"], ReaderOf(key))
         ELSE LET value == parseBencode(ReaderOf(key)) IN
              IF value.err # NoErr THEN value
              ELSE dictionaryLoop(ReaderOf(value), MapPut(values, key.val.v, value.val))

decodeList(r) == listLoop(r, <<>>)

decodeDictionary(r) == dictionaryLoop(r, EmptyMap)

\* a Decode that fails when bytes are left after the value
DecodeToTheEnd(input) ==
    LET result == parseBencode(NewReader(input)) IN
    IF result.err = NoErr /\ result.rest # <<>>
    THEN Fail([msg |-> "trailing data"], ReaderOf(result))
    ELSE result

\* Decode: io.ReadAll of the reader, then one parseBencode over a reader of the bytes
Decode(input) == parseBencode(NewReader(input))

----------------------------------------------------------------------------
(* Encoding *)

RECURSIVE SetToSeq(_)
SetToSeq(S) ==
    IF S = {} THEN <<>>
    ELSE LET x == CHOOSE y \in S : TRUE IN <<x>> \o SetToSeq(S \ {x})

Reverse(s) == [k \in 1..Len(s) |-> s[Len(s) + 1 - k]]

Rotate(s, n) ==
    IF Len(s) = 0 THEN s
    ELSE [k \in 1..Len(s) |-> s[((k - 1 + n) % Len(s)) + 1]]

\* `for k := range dictionary`: the keys in an order the runtime picks; sd
\* selects one (a rotation of some enumeration, reversed when sd is odd)
MapRange(dictionary, sd) ==
    LET ks == Rotate(SetToSeq(DOMAIN dictionary), sd \div 2)
    IN  IF sd % 2 = 1 THEN Reverse(ks) ELSE ks

RECURSIVE InsertSorted(_, _)
InsertSorted(sorted, k) ==
    IF Len(sorted) = 0 THEN <<k>>
    ELSE IF LexLess(k, sorted[1]) THEN <<k>> \o sorted
    ELSE <<sorted[1]>> \o InsertSorted(Tail(sorted), k)

\* encodeDictionary without the sort: the keys as the range loop gave them
SortStringsOmitted(keys) == keys

\* sort.Strings(keys)
RECURSIVE SortStrings(_)
SortStrings(keys) ==
    IF Len(keys) = 0 THEN <<>>
    ELSE InsertSorted(SortStrings(SubSeq(keys, 1, Len(keys) - 1)), keys[Len(keys)])

\* an encoder's return: the buffer w after the call and the error
encodeByteString(w, value) ==
    [w |-> BCat(BAppend(BCat(w, AppendInt(BLen(value))), ChColon), value), err |-> NoErr]

encodeInteger(w, value) ==
    [w |-> BAppend(BCat(BAppend(w, ChI), AppendInt(value)), ChE), err |-> NoErr]

RECURSIVE EncodeTo(_, _, _), encodeListLoop(_, _, _, _), encodeDictionaryLoop(_, _, _, _, _)

\* the loop of encodeList from item k on
encodeListLoop(w, list, k, sd) ==
    IF k > Len(list) THEN [w |-> BAppend(w, ChE), err |-> NoErr]
    ELSE LET item == EncodeTo(w, list[k], sd) IN
         IF item.err # NoErr THEN item
         ELSE encodeListLoop(item.w, list, k + 1, sd)

encodeList(w, list, sd) == encodeListLoop(BAppend(w, ChL), list, 1, sd)

\* the loop of encodeDictionary over the sorted keys from the k-th on
encodeDictionaryLoop(w, dictionary, keys, k, sd) ==
    IF k > Len(keys) THEN [w |-> BAppend(w, ChE), err |-> NoErr]
    ELSE LET key == encodeByteString(w, keys[k])
             value == EncodeTo(key.w, dictionary[keys[k]], sd)
         IN  IF value.err # NoErr THEN value
             ELSE encodeDictionaryLoop(value.w, dictionary, keys, k + 1, sd)

encodeDictionary(w, dictionary, sd) ==
    encodeDictionaryLoop(BAppend(w, ChD), dictionary,
                         SortStrings(MapRange(dictionary, sd)), 1, sd)

\* tags "b" and "n" are the Go types []byte and int, which only Encode takes
EncodeTo(w, rawInput, sd) ==
    IF rawInput.t \in {"b", "s"} THEN encodeByteString(w, rawInput.v)
    ELSE IF rawInput.t \in {"n", "i"} THEN encodeInteger(w, rawInput.v)
    ELSE IF rawInput.t = "l" THEN encodeList(w, rawInput.v, sd)
    ELSE IF rawInput.t = "d" THEN encodeDictionary(w, rawInput.v, sd)
    ELSE [w |-> w, err |-> [msg |-> "unsupported type", type |-> rawInput.t]]

\* Encode: a fresh buffer; nil bytes on error
Encode(v, sd) ==
    LET r == EncodeTo(<<>>, v, sd)
    IN  IF r.err # NoErr THEN [bytes |-> <<>>, err |-> r.err]
        ELSE [bytes |-> r.w, err |-> NoErr]

----------------------------------------------------------------------------
(* The metainfo parser *)

\* "info"
keyInfo == Bytes(<<105, 110, 102, 111>>)
\* "announce"
keyAnnounce == Bytes(<<97, 110, 110, 111, 117, 110, 99, 101>>)
\* "announce-list"
keyAnnounceList == Bytes(<<97, 110, 110, 111, 117, 110, 99, 101, 45, 108, 105, 115, 116>>)
\* "creation date"
keyCreationDate == Bytes(<<99, 114, 101, 97, 116, 105, 111, 110, 32, 100, 97, 116, 101>>)
\* "comment"
keyComment == Bytes(<<99, 111, 109, 109, 101, 110, 116>>)
\* "created by"
keyCreatedBy == Bytes(<<99, 114, 101, 97, 116, 101, 100, 32, 98, 121>>)
\* "encoding"
keyEncoding == Bytes(<<101, 110, 99, 111, 100, 105, 110, 103>>)
\* "name"
keyName == Bytes(<<110, 97, 109, 101>>)
\* "files"
keyFiles == Bytes(<<102, 105, 108, 101, 115>>)
\* "piece length"
keyPieceLength == Bytes(<<112, 105, 101, 99, 101, 32, 108, 101, 110, 103, 116, 104>>)
\* "pieces"
keyPieces == Bytes(<<112, 105, 101, 99, 101, 115>>)
\* "private"
keyPrivate == Bytes(<<112, 114, 105, 118, 97, 116, 101>>)
\* "length"
keyLength == Bytes(<<108, 101, 110, 103, 116, 104>>)
\* "path"
keyPath == Bytes(<<112, 97, 116, 104>>)

\* the length of a piece hash, [20]byte
HashLen == 20

\* the zero value of [20]byte
ZeroHash == Run(0, HashLen)

\* zero values of the result structs; a nil slice and an empty string are <<>>,
\* the *Integer Private is <<>> when nil and <<n>> when it points to n
ZeroInfoDict ==
    [Name |-> <<>>, Files |-> <<>>, PieceLength |-> 0, Pieces |-> <<>>, Private |-> <<>>]

ZeroFile ==
    [Info |-> ZeroInfoDict, InfoHash |-> ZeroHash, Announce |-> <<>>,
     AnnounceList |-> <<>>, CreationDate |-> 0, Comment |-> <<>>,
     CreatedBy |-> <<>>, Encoding |-> <<>>]

NilFile == [nil |-> TRUE]

\* (*InfoDict).IsMultiFile and (*File).IsMultiFile
InfoDictIsMultiFile(i) == Len(i.Files) > 1
IsMultiFile(t) == InfoDictIsMultiFile(t.Info)

\* a parse step's return: the receiver after the call, the error, the lines
\* it printed on standard output
Step(t, err, lines) == [t |-> t, err |-> err, stdout |-> lines]

KeyNotFound(key) == [msg |-> "key not found", key |-> key]
WrongType(key, want, raw) == [msg |-> "wrong type", key |-> key, want |-> want, got |-> raw.t]
Wrap(context, err) == [msg |-> context, cause |-> err]
WrapAt(context, idx, err) == [msg |-> context, index |-> idx, cause |-> err]

parseAnnounce(t, root) ==
    IF keyAnnounce \notin DOMAIN root THEN Step(t, KeyNotFound(keyAnnounce), <<>>)
    ELSE IF root[keyAnnounce].t # "s"
    THEN Step(t, WrongType(keyAnnounce, "s", root[keyAnnounce]), <<>>)
    ELSE Step([t EXCEPT !.Announce = root[keyAnnounce].v], NoErr, <<>>)

parseName(i, infoRoot) ==
    IF keyName \notin DOMAIN infoRoot THEN Step(i, KeyNotFound(keyName), <<>>)
    ELSE IF infoRoot[keyName].t # "s"
    THEN Step(i, WrongType(keyName, "s", infoRoot[keyName]), <<>>)
    ELSE Step([i EXCEPT !.Name = infoRoot[keyName].v], NoErr, <<>>)

parsePieceLength(i, infoRoot) ==
    IF keyPieceLength \notin DOMAIN infoRoot
    THEN Step(i, KeyNotFound(keyPieceLength), <<>>)
    ELSE IF infoRoot[keyPieceLength].t # "i"
    THEN Step(i, WrongType(keyPieceLength, "i", infoRoot[keyPieceLength]), <<>>)
    ELSE Step([i EXCEPT !.PieceLength = infoRoot[keyPieceLength].v], NoErr, <<>>)

\* parseFileLength taking a missing or mistyped length for zero
parseFileLengthLenient(root) ==
    IF keyLength \notin DOMAIN root \/ root[keyLength].t # "i"
    THEN [n |-> 0, err |-> NoErr]
    ELSE [n |-> root[keyLength].v, err |-> NoErr]

\* returns [n, err]
parseFileLength(root) ==
    IF keyLength \notin DOMAIN root THEN [n |-> 0, err |-> KeyNotFound(keyLength)]
    ELSE IF root[keyLength].t # "i"
    THEN [n |-> 0, err |-> WrongType(keyLength, "i", root[keyLength])]
    ELSE [n |-> root[keyLength].v, err |-> NoErr]

\* returns [path, err]; the assertion is to the Go type []string, the tag "[]s",
\* which is not the type []Value (tag "l") of a decoded list
parseFilePath(root) ==
    IF keyPath \notin DOMAIN root THEN [path |-> <<>>, err |-> KeyNotFound(keyPath)]
    ELSE IF root[keyPath].t # "[]s"
    THEN [path |-> <<>>, err |-> WrongType(keyPath, "[]s", root[keyPath])]
    ELSE [path |-> root[keyPath].v, err |-> NoErr]

\* the loop of parseFiles over the entries of the files list, from idx (0-based) on
RECURSIVE multiFileLoop(_, _, _)
multiFileLoop(multiFileList, idx, fileInfoList) ==
    IF idx >= Len(multiFileList) THEN [files |-> fileInfoList, err |-> NoErr]
    ELSE LET elem == multiFileList[idx + 1] IN
         IF elem.t # "d"
         THEN [files |-> fileInfoList,
               err |-> [msg |-> "wrong type", key |-> keyFiles, index |-> idx,
                        want |-> "d", got |-> elem.t]]
         ELSE LET length == parseFileLength(elem.v)
                  path == parseFilePath(elem.v)
              IN  IF length.err # NoErr
                  THEN [files |-> fileInfoList,
                        err |-> WrapAt("parsing file length at index", idx, length.err)]
                  ELSE IF path.err # NoErr
                  THEN [files |-> fileInfoList,
                        err |-> WrapAt("parsing file path at index", idx, path.err)]
                  ELSE multiFileLoop(multiFileList, idx + 1,
                           Append(fileInfoList, [Length |-> length.n, Path |-> path.path]))

\* parseFiles taking the single-file branch whenever info holds a length
parseFilesLengthFirst(i, infoRoot) ==
    IF keyFiles \notin DOMAIN infoRoot \/ keyLength \in DOMAIN infoRoot
    THEN LET length == parseFileLength(infoRoot) IN
         IF length.err # NoErr
         THEN Step(i, Wrap("parsing single-file mode torrent 'length'", length.err),
                   <<"single-file mode torrent">>)
         ELSE Step([i EXCEPT !.Files = <<[Length |-> length.n, Path |-> <<i.Name>>]>>],
                   NoErr, <<"single-file mode torrent">>)
    ELSE IF infoRoot[keyFiles].t # "l"
    THEN Step(i, WrongType(keyFiles, "l", infoRoot[keyFiles]), <<"multi-file mode torrent">>)
    ELSE LET loop == multiFileLoop(infoRoot[keyFiles].v, 0, <<>>) IN
         IF loop.err # NoErr THEN Step(i, loop.err, <<"multi-file mode torrent">>)
         ELSE Step([i EXCEPT !.Files = loop.files], NoErr, <<"multi-file mode torrent">>)

parseFiles(i, infoRoot) ==
    IF keyFiles \notin DOMAIN infoRoot
    THEN LET length == parseFileLength(infoRoot) IN
         IF length.err # NoErr
         THEN Step(i, Wrap("parsing single-file mode torrent 'length'", length.err),
                   <<"single-file mode torrent">>)
         ELSE Step([i EXCEPT !.Files = <<[Length |-> length.n, Path |-> <<i.Name>>]>>],
                   NoErr, <<"single-file mode torrent">>)
    ELSE IF infoRoot[keyFiles].t # "l"
    THEN Step(i, WrongType(keyFiles, "l", infoRoot[keyFiles]), <<"multi-file mode torrent">>)
    ELSE LET loop == multiFileLoop(infoRoot[keyFiles].v, 0, <<>>) IN
         IF loop.err # NoErr THEN Step(i, loop.err, <<"multi-file mode torrent">>)
         ELSE Step([i EXCEPT !.Files = loop.files], NoErr, <<"multi-file mode torrent">>)

\* the pieces string cut into its consecutive HashLen-byte chunks
RECURSIVE SplitPieces(_)
SplitPieces(b) ==
    IF BLen(b) = 0 THEN <<>>
    ELSE <<BTake(b, HashLen)>> \o SplitPieces(BDrop(b, HashLen))

parsePieces(i, infoRoot) ==
    IF keyPieces \notin DOMAIN infoRoot THEN Step(i, KeyNotFound(keyPieces), <<>>)
    ELSE IF infoRoot[keyPieces].t # "s"
    THEN Step(i, WrongType(keyPieces, "s", infoRoot[keyPieces]), <<>>)
    ELSE IF BLen(infoRoot[keyPieces].v) % HashLen # 0
    THEN Step(i, [msg |-> "length is not a multiple of 20", key |-> keyPieces], <<>>)
    ELSE Step([i EXCEPT !.Pieces = SplitPieces(infoRoot[keyPieces].v)], NoErr, <<>>)

\* parsePrivate leaving the field unset for the integer 0
parsePrivateZeroUnset(i, infoRoot) ==
    IF keyPrivate \notin DOMAIN infoRoot
    THEN Step(i, NoErr, <<"'private' key not found">>)
    ELSE IF infoRoot[keyPrivate].t # "i"
    THEN Step(i, NoErr, <<"parsing 'private': expected bencode.Integer">>)
    ELSE IF infoRoot[keyPrivate].v = 0 THEN Step(i, NoErr, <<>>)
    ELSE Step([i EXCEPT !.Private = <<infoRoot[keyPrivate].v>>], NoErr, <<>>)

parsePrivate(i, infoRoot) ==
    IF keyPrivate \notin DOMAIN infoRoot
    THEN Step(i, NoErr, <<"'private' key not found">>)
    ELSE IF infoRoot[keyPrivate].t # "i"
    THEN Step(i, NoErr, <<"parsing 'private': expected bencode.Integer">>)
    ELSE Step([i EXCEPT !.Private = <<infoRoot[keyPrivate].v>>], NoErr, <<>>)

\* parseInfo, split at its calls: each operator is the rest of the function
\* after the call whose return it takes; t is the receiver, info the info
\* dictionary, stdout the lines printed so far
parseInfoAfterPrivate(t, private, stdout) ==
    Step([t EXCEPT !.Info = private.t], NoErr, stdout \o private.stdout)

\* parseInfoAfterPieces without the test of the error parsePieces returns
parseInfoAfterPiecesUnchecked(t, pieces, info, stdout) ==
    parseInfoAfterPrivate(t, parsePrivate(pieces.t, info), stdout)

parseInfoAfterPieces(t, pieces, info, stdout) ==
    IF pieces.err # NoErr THEN Step(t, pieces.err, stdout)
    ELSE parseInfoAfterPrivate(t, parsePrivate(pieces.t, info), stdout)

parseInfoAfterFiles(t, files, info) ==
    IF files.err # NoErr THEN Step(t, files.err, files.stdout)
    ELSE parseInfoAfterPieces(t, parsePieces(files.t, info), info, files.stdout)

parseInfoAfterPieceLength(t, pieceLength, info) ==
    IF pieceLength.err # NoErr THEN Step(t, pieceLength.err, <<>>)
    ELSE parseInfoAfterFiles(t, parseFiles(pieceLength.t, info), info)

parseInfoAfterName(t, name, info) ==
    IF name.err # NoErr THEN Step(t, name.err, <<>>)
    ELSE parseInfoAfterPieceLength(t, parsePieceLength(name.t, info), info)

parseInfo(t, root) ==
    IF keyInfo \notin DOMAIN root THEN Step(t, KeyNotFound(keyInfo), <<>>)
    ELSE IF root[keyInfo].t # "d" THEN Step(t, WrongType(keyInfo, "d", root[keyInfo]), <<>>)
    ELSE parseInfoAfterName(t, parseName(ZeroInfoDict, root[keyInfo].v), root[keyInfo].v)

\* the byte strings of one tier of announce-list, in order
RECURSIVE tierUrls(_, _)
tierUrls(tier, k) ==
    IF k > Len(tier) THEN [urls |-> <<>>, stdout |-> <<>>]
    ELSE LET rest == tierUrls(tier, k + 1) IN
         IF tier[k].t # "s"
         THEN [urls |-> rest.urls, stdout |-> <<"url: expected bencode.ByteString">> \o rest.stdout]
         ELSE [urls |-> <<tier[k].v>> \o rest.urls, stdout |-> rest.stdout]

\* announceTiers keeping the tiers that are left without a URL
RECURSIVE announceTiersKeepEmpty(_, _)
announceTiersKeepEmpty(rawList, k) ==
    IF k > Len(rawList) THEN [list |-> <<>>, stdout |-> <<>>]
    ELSE LET rest == announceTiersKeepEmpty(rawList, k + 1) IN
         IF rawList[k].t # "l"
         THEN [list |-> rest.list, stdout |-> <<"tier: expected bencode.List">> \o rest.stdout]
         ELSE LET tier == tierUrls(rawList[k].v, 1) IN
              [list |-> <<tier.urls>> \o rest.list, stdout |-> tier.stdout \o rest.stdout]

\* the loop of parseAnnounceList over the tiers
RECURSIVE announceTiers(_, _)
announceTiers(rawList, k) ==
    IF k > Len(rawList) THEN [list |-> <<>>, stdout |-> <<>>]
    ELSE LET rest == announceTiers(rawList, k + 1) IN
         IF rawList[k].t # "l"
         THEN [list |-> rest.list, stdout |-> <<"tier: expected bencode.List">> \o rest.stdout]
         ELSE LET tier == tierUrls(rawList[k].v, 1) IN
              [list |-> IF Len(tier.urls) > 0 THEN <<tier.urls>> \o rest.list ELSE rest.list,
               stdout |-> tier.stdout \o rest.stdout]

parseAnnounceList(t, root) ==
    IF keyAnnounceList \notin DOMAIN root
    THEN Step(t, NoErr, <<"'announce-list' key not found">>)
    ELSE IF root[keyAnnounceList].t # "l"
    THEN Step(t, NoErr, <<"parsing 'announce-list': expected bencode.List">>)
    ELSE LET tiers == announceTiers(root[keyAnnounceList].v, 1) IN
         Step([t EXCEPT !.AnnounceList = tiers.list], NoErr, tiers.stdout)

parseCreationDate(t, root) ==
    IF keyCreationDate \notin DOMAIN root
    THEN Step(t, NoErr, <<"'creation date' not found">>)
    ELSE IF root[keyCreationDate].t # "i"
    THEN Step(t, NoErr, <<"parsing 'creation date': expected bencode.Integer">>)
    ELSE Step([t EXCEPT !.CreationDate = root[keyCreationDate].v], NoErr, <<>>)

parseComment(t, root) ==
    IF keyComment \notin DOMAIN root THEN Step(t, NoErr, <<"'comment' not found">>)
    ELSE IF root[keyComment].t # "s"
    THEN Step(t, NoErr, <<"parsing 'comment': expected string">>)
    ELSE Step([t EXCEPT !.Comment = root[keyComment].v], NoErr, <<>>)

parseCreatedBy(t, root) ==
    IF keyCreatedBy \notin DOMAIN root THEN Step(t, NoErr, <<"'created by' not found">>)
    ELSE IF root[keyCreatedBy].t # "s"
    THEN Step(t, NoErr, <<"parsing 'created by': expected bencode.ByteString">>)
    ELSE Step([t EXCEPT !.CreatedBy = root[keyCreatedBy].v], NoErr, <<>>)

parseEncoding(t, root) ==
    IF keyEncoding \notin DOMAIN root THEN Step(t, NoErr, <<"'encoding' not found">>)
    ELSE IF root[keyEncoding].t # "s"
    THEN Step(t, NoErr, <<"parsing 'encoding': expected bencode.ByteString">>)
    ELSE Step([t EXCEPT !.Encoding = root[keyEncoding].v], NoErr, <<>>)

\* Parse, split at its calls: each operator is the rest of the function after
\* the call whose return it takes; root is the decoded dictionary, stdout the
\* lines printed so far.  They return [file, err, stdout], file = NilFile
\* with an error.
ParseAfterEncoding(encoding, stdout) ==
    [file |-> encoding.t, err |-> NoErr, stdout |-> stdout \o encoding.stdout]

ParseAfterCreatedBy(createdBy, root, stdout) ==
    ParseAfterEncoding(parseEncoding(createdBy.t, root), stdout \o createdBy.stdout)

\* ParseAfterComment returning at once when parseComment skipped the field
ParseAfterCommentShortCircuit(comment, root, stdout) ==
    IF comment.stdout # <<>>
    THEN [file |-> comment.t, err |-> NoErr, stdout |-> stdout \o comment.stdout]
    ELSE ParseAfterCreatedBy(parseCreatedBy(comment.t, root), root, stdout \o comment.stdout)

ParseAfterComment(comment, root, stdout) ==
    ParseAfterCreatedBy(parseCreatedBy(comment.t, root), root, stdout \o comment.stdout)

ParseAfterCreationDate(creationDate, root, stdout) ==
    ParseAfterComment(parseComment(creationDate.t, root), root, stdout \o creationDate.stdout)

ParseAfterAnnounceList(announceList, root, stdout) ==
    ParseAfterCreationDate(parseCreationDate(announceList.t, root), root,
                           stdout \o announceList.stdout)

\* ParseAfterInfo handing back the record filled so far together with the error
ParseAfterInfoPartial(info, root) ==
    IF info.err # NoErr THEN [file |-> info.t, err |-> info.err, stdout |-> info.stdout]
    ELSE ParseAfterAnnounceList(parseAnnounceList(info.t, root), root, info.stdout)

ParseAfterInfo(info, root) ==
    IF info.err # NoErr THEN [file |-> NilFile, err |-> info.err, stdout |-> info.stdout]
    ELSE ParseAfterAnnounceList(parseAnnounceList(info.t, root), root, info.stdout)

ParseAfterAnnounce(announce, root) ==
    IF announce.err # NoErr THEN [file |-> NilFile, err |-> announce.err, stdout |-> <<>>]
    ELSE ParseAfterInfo(parseInfo(announce.t, root), root)

ParseAfterDecode(decodedData) ==
    IF decodedData.err # NoErr
    THEN [file |-> NilFile, err |-> decodedData.err, stdout |-> <<>>]
    ELSE IF decodedData.val.t # "d"
    THEN [file |-> NilFile, err |-> [msg |-> "invalid torrent structure for file"],
          stdout |-> <<>>]
    ELSE ParseAfterAnnounce(parseAnnounce(ZeroFile, decodedData.val.v), decodedData.val.v)

\* Parse(path): exists says whether os.ReadFile finds the file, content is what
\* it reads
Parse(exists, content) ==
    IF ~exists THEN [file |-> NilFile, err |-> [msg |-> "open: no such file"], stdout |-> <<>>]
    ELSE ParseAfterDecode(Decode(content))

----------------------------------------------------------------------------
(* Inputs *)

MaxRawLen == 4
MaxListLen == 2
MaxEntries == 2
NumSeeds == 4
MaxVaried == 2

\* i e l d 0 1 : - +
Alphabet == {ChI, ChE, ChL, ChD, Ch0, Ch0 + 1, ChColon, ChMinus, ChPlus}

SeqsUpTo(S, n) == UNION {[1..k -> S] : k \in 0..n}

\* every byte sequence over Alphabet of at most MaxRawLen bytes
RawInputs == {Bytes(q) : q \in SeqsUpTo(Alphabet, MaxRawLen)}

\* n bytes 'a'
Fill(n) == Run(97, n)

\* the keys "1", "00", "0:": byte order differs from length-first order
KeySet == {Bytes(<<49>>), Bytes(<<48, 48>>), Bytes(<<48, 58>>)}

AtomStrings == {<<>>, Bytes(<<49>>), Bytes(<<101>>), Bytes(<<115, 112, 97, 109>>), Fill(12)}
AtomInts == {0, 1, 0 - 1, 10, 0 - 12, 2147483647}
Atoms == {ByteString(b) : b \in AtomStrings} \cup {Integer(n) : n \in AtomInts}

DictVals == {ByteString(<<>>), Integer(1), Integer(0 - 1), List(<<>>)}
MapsOver(K, V) == UNION {[D -> V] : D \in SUBSET K}

Lists1 == {List(xs) : xs \in SeqsUpTo(Atoms, MaxListLen)}
Dicts1 == {Dictionary(f) : f \in MapsOver(KeySet, DictVals)}
Nested ==
    {List(<<d>>) : d \in Dicts1}
    \cup {Dictionary([k \in {key} |-> d]) : key \in KeySet, d \in Dicts1}
    \cup {Dictionary([k \in {<<>>, Bytes(<<49>>)} |-> IF k = <<>> THEN l ELSE d]) :
            d \in Dicts1, l \in {List(<<>>), List(<<Integer(0)>>)}}

\* byte strings at and just over the decoder's limit, as a value and as a key
LongValues ==
    {ByteString(Fill(MaxByteStringLength)), ByteString(Fill(MaxByteStringLength + 1)),
     Dictionary([k \in {Fill(MaxByteStringLength)} |-> Integer(0)]),
     Dictionary([k \in {Fill(MaxByteStringLength + 1)} |-> Integer(0)])}

\* <n>:<k bytes>, n and k around the decoder's limit
LimitInputs ==
    {BCat(BAppend(AppendInt(n), ChColon), Fill(k)) :
        n \in {MaxByteStringLength - 1, MaxByteStringLength, MaxByteStringLength + 1},
        k \in {0, 1, MaxByteStringLength - 1, MaxByteStringLength, MaxByteStringLength + 1}}

\* a float64, a Go type EncodeTo has no case for
Unsupported == [t |-> "f", v |-> 0]

\* values EncodeTo fails on: at once, after an item, after a key
Unencodable ==
    {Unsupported, List(<<Unsupported>>), List(<<Integer(1), Unsupported>>),
     Dictionary([k \in {Bytes(<<49>>)} |-> Unsupported]),
     List(<<List(<<>>), Dictionary([k \in {<<>>} |-> Unsupported])>>)}

Values == Atoms \cup Lists1 \cup Dicts1 \cup Nested \cup LongValues

\* the arguments of EncodeTo: a buffer that is empty or already holds "1:e",
\* and a value it can or cannot encode
Buffers == {<<>>, Bytes(<<49, 58, 101>>)}
BufferValues == Unencodable \cup {Integer(1), List(<<Integer(1)>>)}

RECURSIVE HasDictionary(_)
HasDictionary(v) ==
    \/ v.t = "d"
    \/ v.t = "l" /\ \E k \in 1..Len(v.v) : HasDictionary(v.v[k])

Seeds(v) == IF HasDictionary(v) THEN 0..(NumSeeds - 1) ELSE {0}

\* dictionary inputs written token by token: keys of any type, repeated, unsorted
WireKeys == {ByteString(<<>>), ByteString(Bytes(<<49>>)), Integer(0), List(<<>>)}
WireVals == {Integer(0), Integer(1), ByteString(<<>>), List(<<>>)}
WireEntries == SeqsUpTo(WireKeys \X WireVals, MaxEntries) \ {<<>>}

RECURSIVE WireBody(_)
WireBody(entries) ==
    IF Len(entries) = 0 THEN <<>>
    ELSE BCat(BCat(Encode(entries[1][1], 0).bytes, Encode(entries[1][2], 0).bytes),
              WireBody(Tail(entries)))

WireDict(entries) == BAppend(BCat(Run(ChD, 1), WireBody(entries)), ChE)

----------------------------------------------------------------------------
(* The codec as a state machine *)

NoOut == [bytes |-> <<>>, err |-> [msg |-> "not called"]]
NoRes == [val |-> Nil, err |-> [msg |-> "not called"], pos |-> 0, rest |-> <<>>]
NoTor == [err |-> [msg |-> "not called"]]
NoDec == [at |-> "idle"]

Init ==
    /\ out = NoOut
    /\ res = NoRes
    /\ tor = NoTor
    /\ dec = NoDec
    /\ \/ /\ pc = "value"
          /\ val \in Values
          /\ seed \in Seeds(val)
          /\ data = <<>>
          /\ wire = <<>>
       \/ /\ pc = "input"
          /\ data \in RawInputs \cup LimitInputs
          /\ wire = <<>>
          /\ val = Nil
          /\ seed = 0
       \/ /\ pc = "input"
          /\ wire \in WireEntries
          /\ data = WireDict(wire)
          /\ val = Nil
          /\ seed = 0
       \/ /\ pc = "buffer"
          /\ val \in BufferValues
          /\ data \in Buffers
          /\ wire = <<>>
          /\ seed = 0

\* a call Encode(val)
EncodeStep ==
    /\ pc = "value"
    /\ out' = Encode(val, seed)
    /\ pc' = "encoded"
    /\ UNCHANGED <<data, wire, val, seed, res, tor, dec>>

\* bytes.NewReader over the encoded bytes, as the caller of Decode makes it
ReadEncoded ==
    /\ pc = "encoded"
    /\ out.err = NoErr
    /\ data' = out.bytes
    /\ pc' = "input"
    /\ UNCHANGED <<wire, val, seed, out, res, tor, dec>>

\* a call Decode(bytes.NewReader(data))
DecodeStep ==
    /\ pc = "input"
    /\ res' = Decode(data)
    /\ pc' = "decoded"
    /\ UNCHANGED <<data, wire, val, seed, out, tor, dec>>

\* a call EncodeTo(w, val), w a buffer holding data
EncodeToStep ==
    /\ pc = "buffer"
    /\ out' = [bytes |-> EncodeTo(data, val, seed).w, err |-> EncodeTo(data, val, seed).err]
    /\ pc' = "written"
    /\ UNCHANGED <<data, wire, val, seed, res, tor, dec>>

Next == EncodeStep \/ ReadEncoded \/ DecodeStep \/ EncodeToStep

Spec == Init /\ [][Next]_vars

----------------------------------------------------------------------------
(* The parser as a state machine *)

\* a key the file leaves out
Absent == Nil

\* the dictionaries that give each key of fields one of its values, or leave
\* it out; fields is a sequence of <<key, values>>
RECURSIVE DictsOf(_)
DictsOf(fields) ==
    IF Len(fields) = 0 THEN {EmptyMap}
    ELSE {IF v = Absent THEN m
          ELSE [k \in (DOMAIN m) \cup {fields[1][1]} |->
                    IF k = fields[1][1] THEN v ELSE m[k]] :
            v \in fields[1][2], m \in DictsOf(Tail(fields))}

\* "n", "u"
SomeName == ByteString(Bytes(<<110>>))
SomeUrl == ByteString(Bytes(<<117>>))

\* the value of key k in the map m, Absent when m has no such key
Lookup(m, k) == IF k \in DOMAIN m THEN m[k] ELSE Absent

\* m differs from base in at most MaxVaried of the keys
Near(m, base, keys) == Cardinality({k \in keys : Lookup(m, k) # Lookup(base, k)}) <= MaxVaried

\* a name that walks out of its directory: ../n
TraversalName == ByteString(Bytes(<<46, 46, 47, 110>>))

\* entries of a files list: length and path present or not, one or two components
FileEntries ==
    {Dictionary(f) :
        f \in DictsOf(<< <<keyLength, {Absent, Integer(7), Integer(0 - 3)}>>,
                         <<keyPath, {Absent, List(<<SomeName>>),
                                     List(<<SomeName, SomeUrl>>)}>> >>)}

\* the entries with a non-negative length and a path that is a list of byte strings
WellFormedEntries ==
    {e \in FileEntries :
        keyLength \in DOMAIN e.v /\ keyPath \in DOMAIN e.v /\ e.v[keyLength].v >= 0}

\* values of the files key: not a list, empty, one entry, an entry that is no
\* dictionary, two well-formed entries
FilesValues ==
    {List(<<>>), Integer(0), List(<<Integer(0)>>)}
    \cup {List(<<e>>) : e \in FileEntries}
    \cup {List(<<p[1], p[2]>>) :
             p \in {q \in WellFormedEntries \X WellFormedEntries : q[1] # q[2]}}

\* an info dictionary parseInfo accepts: single-file, one piece
GoodInfo ==
    Dictionary([k \in {keyName, keyPieceLength, keyPieces, keyLength} |->
        IF k = keyName THEN SomeName
        ELSE IF k = keyPieceLength THEN Integer(2)
        ELSE IF k = keyPieces THEN ByteString(Fill(HashLen))
        ELSE Integer(5)])

InfoKeys == {keyName, keyPieceLength, keyPieces, keyLength, keyFiles, keyPrivate}

\* the info dictionaries that differ from GoodInfo in at most MaxVaried keys
InfoDicts ==
    {Dictionary(f) :
        f \in {g \in DictsOf(<< <<keyName, {Absent, SomeName, Integer(0), TraversalName}>>,
                                <<keyPieceLength,
                                  {Absent, Integer(2), Integer(0), Integer(0 - 1)}>>,
                                <<keyPieces, {Absent, ByteString(Fill(HashLen)),
                                              ByteString(BCat(Fill(HashLen), Run(98, HashLen))),
                                              ByteString(Fill(HashLen + 1)), Integer(0)}>>,
                                <<keyLength, {Absent, Integer(5), Integer(0 - 1), SomeName}>>,
                                <<keyFiles, {Absent} \cup FilesValues>>,
                                <<keyPrivate, {Absent, Integer(0), Integer(1), SomeName}>> >>) :
                    Near(g, GoodInfo.v, InfoKeys)}}

\* a root dictionary Parse accepts, without optional keys
GoodRoot == [k \in {keyAnnounce, keyInfo} |-> IF k = keyAnnounce THEN SomeUrl ELSE GoodInfo]

OptionalKeys == {keyAnnounceList, keyCreationDate, keyComment, keyCreatedBy, keyEncoding}

\* GoodInfo with the private key set to p
WithPrivate(p) ==
    Dictionary([k \in (DOMAIN GoodInfo.v) \cup {keyPrivate} |->
        IF k = keyPrivate THEN p ELSE GoodInfo.v[k]])

\* roots that vary the required keys, and roots that vary at most MaxVaried
\* of the optional ones, private among them
TorrentRoots ==
    {Dictionary(f) :
        f \in DictsOf(<< <<keyAnnounce, {Absent, SomeUrl, Integer(0)}>>,
                         <<keyInfo, {Absent, Integer(0)} \cup InfoDicts>> >>)}
    \cup
    {Dictionary(f) :
        f \in {g \in DictsOf(<< <<keyAnnounce, {SomeUrl}>>,
                                <<keyInfo, {GoodInfo, WithPrivate(Integer(0)),
                                            WithPrivate(Integer(1)), WithPrivate(SomeName)}>>,
                                <<keyAnnounceList,
                                  {Absent, Integer(0), List(<<>>), List(<<List(<<SomeUrl>>)>>),
                                   List(<<Integer(0), List(<<Integer(0), SomeUrl, SomeName>>),
                                          List(<<>>)>>),
                                   List(<<List(<<SomeName>>), List(<<Integer(0)>>),
                                          List(<<SomeUrl, Integer(0), SomeName>>)>>)}>>,
                                <<keyCreationDate, {Absent, Integer(0), Integer(9), SomeName}>>,
                                <<keyComment, {Absent, SomeName, Integer(0)}>>,
                                <<keyCreatedBy, {Absent, SomeName, Integer(0)}>>,
                                <<keyEncoding, {Absent, SomeName, Integer(0)}>> >>) :
                    Near(g, GoodRoot, OptionalKeys \cup {keyInfo})}}

\* files that are not a dictionary, or not bencode at all
OtherFiles == {<<>>, Bytes(<<ChL, ChE>>), Bytes(<<ChI, Ch0, ChE>>), Bytes(<<ChD>>)}

\* bytes that follow the root value in a file
TrailingBytes == {Bytes(<<ChE>>), Bytes(<<ChI, Ch0, ChE>>), Bytes(<<ChD>>), Bytes(<<0, 0>>)}

\* root values of the files that carry trailing bytes
TrailedRoots ==
    {Dictionary(GoodRoot), Dictionary([k \in {keyInfo} |-> GoodInfo]),
     Dictionary(EmptyMap), Integer(0), List(<<>>), SomeUrl}

InitParse ==
    /\ out = NoOut
    /\ res = NoRes
    /\ tor = NoTor
    /\ dec = NoDec
    /\ seed = 0
    /\ \/ /\ pc = "file"
          /\ val \in TorrentRoots
          /\ data = Encode(val, seed).bytes
          /\ wire = <<>>
       \/ /\ pc = "file"
          /\ val \in TrailedRoots
          /\ wire \in TrailingBytes
          /\ data = BCat(Encode(val, seed).bytes, wire)
       \/ /\ pc = "file"
          /\ val = Nil
          /\ data \in OtherFiles
          /\ wire = <<>>
       \/ /\ pc = "nofile"
          /\ val = Nil
          /\ data = <<>>
          /\ wire = <<>>

\* a call Parse(path); pc says whether path names a file, data is the file's content
ParseStep ==
    /\ pc \in {"file", "nofile"}
    /\ tor' = Parse(pc = "file", data)
    /\ pc' = "parsed"
    /\ UNCHANGED <<data, wire, val, seed, out, res, dec>>

\* a call t.IsMultiFile() on the File a successful Parse returned
IsMultiFileStep ==
    /\ pc = "parsed"
    /\ tor.err = NoErr
    /\ out' = [multi |-> IsMultiFile(tor.file)]
    /\ pc' = "asked"
    /\ UNCHANGED <<data, wire, val, seed, res, tor, dec>>

NextParse == ParseStep \/ IsMultiFileStep

SpecParse == InitParse /\ [][NextParse]_vars

----------------------------------------------------------------------------
(* Decode, one loop iteration at a time *)

MaxStepLen == 3

\* inputs of Decode: every short input, and encoded lists and dictionaries
StepInputs ==
    {Bytes(q) : q \in SeqsUpTo(Alphabet, MaxStepLen)}
    \cup {Encode(v, 0).bytes : v \in Dicts1 \cup Nested}

\* Decode has made its reader and is about to call parseBencode
StepStart(input) ==
    [r |-> NewReader(input), at |-> "value", buffer |-> <<>>, first |-> FALSE,
     mark |-> 0, stack |-> <<>>, steps |-> 0]

\* the list or dictionary whose loop is innermost
Top(d) == d.stack[Len(d.stack)]
Popped(d) == [d EXCEPT !.stack = SubSeq(d.stack, 1, Len(d.stack) - 1)]

\* Decode returns result; an error goes up through every caller unchanged
Finish(d, result) ==
    [dec |-> [d EXCEPT !.at = "done", !.r = ReaderOf(result)], res |-> result]

\* parseBencode returns value v with the reader at r: to Decode, to the loop
\* of decodeList, or to decodeDictionary, which has called for a key or for
\* the value under a key
ReturnValue(d, v, r) ==
    IF d.stack = <<>> THEN Finish(d, Ok(v, r))
    ELSE IF Top(d).kind = "l"
    THEN [dec |-> [d EXCEPT !.r = r, !.at = "list",
                            !.stack[Len(d.stack)].values = Append(@, v)],
          res |-> NoRes]
    ELSE IF Top(d).key = <<>>
    THEN IF v.t # "s" THEN Finish(d, Fail([msg |-> "dictionary key is not a string"], r))
         ELSE [dec |-> [d EXCEPT !.r = r, !.at = "value",
                                 !.stack[Len(d.stack)].key = <<v.v>>],
               res |-> NoRes]
    ELSE [dec |-> [d EXCEPT !.r = r, !.at = "dictionary",
                            !.stack[Len(d.stack)].values = MapPut(@, Top(d).key[1], v),
                            !.stack[Len(d.stack)].key = <<>>],
          res |-> NoRes]

\* the loop goes on with the reader at r
Continue(d, r) == [dec |-> [d EXCEPT !.r = r], res |-> NoRes]

\* the step next is taken
Take(next) ==
    \E taken \in {next} :
        /\ dec' = [taken.dec EXCEPT !.steps = dec.steps + 1]
        /\ res' = taken.res
        /\ pc' = IF taken.dec.at = "done" THEN "stepped" ELSE "decoding"
        /\ UNCHANGED <<data, wire, val, seed, out, tor>>

InitSteps ==
    /\ pc = "decoding"
    /\ data \in StepInputs
    /\ dec = StepStart(data)
    /\ res = NoRes
    /\ out = NoOut
    /\ tor = NoTor
    /\ val = Nil
    /\ wire = <<>>
    /\ seed = 0

\* parseBencode up to its switch; mark is the offset the token starts at
parseBencodeSwitch(d) ==
    IF AtEOF(d.r) THEN Finish(d, Fail(EOF, d.r))
    ELSE IF NextByte(d.r) = ChI
    THEN Continue([d EXCEPT !.at = "integer", !.buffer = <<>>, !.first = TRUE,
                            !.mark = d.r.off], Advance(d.r))
    ELSE IF IsDigit(NextByte(d.r))
    THEN Continue([d EXCEPT !.at = "length", !.buffer = Run(NextByte(d.r), 1),
                            !.mark = d.r.off], Advance(d.r))
    ELSE IF NextByte(d.r) = ChL
    THEN Continue([d EXCEPT !.at = "list",
                            !.stack = Append(@, [kind |-> "l", values |-> <<>>,
                                                 key |-> <<>>, mark |-> d.r.off])],
                  Advance(d.r))
    ELSE IF NextByte(d.r) = ChD
    THEN Continue([d EXCEPT !.at = "dictionary",
                            !.stack = Append(@, [kind |-> "d", values |-> EmptyMap,
                                                 key |-> <<>>, mark |-> d.r.off])],
                  Advance(d.r))
    ELSE Finish(d, invalidPrefix(NextByte(d.r), Advance(d.r)))

ParseBencodeStep ==
    /\ pc = "decoding"
    /\ dec.at = "value"
    /\ Take(parseBencodeSwitch(dec))

\* decodeInteger after its loop, parsed what strconv.ParseInt made of the buffer
integerParsed(d, r, parsed) ==
    IF Len(d.buffer) = 0 THEN Finish(d, Fail([msg |-> "empty integer"], r))
    ELSE IF parsed.err # NoErr THEN Finish(d, Fail(parsed.err, r))
    ELSE ReturnValue(d, Integer(parsed.n), r)

integerDone(d, r) ==
    CHOOSE next \in {integerParsed(d, r, parsed) : parsed \in {ParseInt(d.buffer)}} : TRUE

\* one iteration of the loop of decodeInteger
integerIteration(d) ==
    IF AtEOF(d.r) THEN Finish(d, Fail(EOF, d.r))
    ELSE IF d.first /\ AtEOF(Advance(d.r))
    THEN Finish(d, Fail([msg |-> "error peeking second digit: EOF"], Advance(d.r)))
    ELSE IF d.first /\ NextByte(d.r) = ChMinus /\ NextByte(Advance(d.r)) = Ch0
    THEN Finish(d, Fail([msg |-> "negative zero in integer"], Advance(Advance(d.r))))
    ELSE IF d.first /\ NextByte(d.r) = Ch0 /\ NextByte(Advance(d.r)) # ChE
    THEN Finish(d, Fail([msg |-> "leading zero in integer"], Advance(Advance(d.r))))
    ELSE IF NextByte(d.r) = ChE THEN integerDone(d, Advance(d.r))
    ELSE Continue([d EXCEPT !.buffer = BAppend(@, NextByte(d.r)), !.first = FALSE,
                            !.mark = d.r.off], Advance(d.r))

IntegerIteration ==
    /\ pc = "decoding"
    /\ dec.at = "integer"
    /\ Take(integerIteration(dec))

\* decodeByteString after io.ReadFull, read what it returned
lengthRead(d, read) ==
    IF read.err # NoErr THEN Finish(d, read)
    ELSE ReturnValue(d, read.val, ReaderOf(read))

\* decodeByteString after its loop, r the reader after ':' and length what
\* strconv.ParseInt made of the buffer
lengthParsed(d, r, length) ==
    IF length.err # NoErr THEN Finish(d, Fail(length.err, r))
    ELSE IF length.n > MaxByteStringLength
    THEN Finish(d, Fail([msg |-> "byte string length too large", n |-> length.n], r))
    ELSE CHOOSE next \in {lengthRead(d, read) : read \in {ReadFull(r, length.n)}} : TRUE

lengthDone(d, r) ==
    CHOOSE next \in {lengthParsed(d, r, length) : length \in {ParseInt(d.buffer)}} : TRUE

\* an iteration that unreads the length byte it has just buffered
lengthIterationUnread(d) ==
    IF AtEOF(d.r) THEN Finish(d, Fail(EOF, d.r))
    ELSE IF NextByte(d.r) = ChColon THEN lengthDone(d, Advance(d.r))
    ELSE Continue([d EXCEPT !.buffer = BAppend(@, NextByte(d.r)), !.mark = d.r.off], d.r)

\* one iteration of the loop of decodeByteString
lengthIteration(d) ==
    IF AtEOF(d.r) THEN Finish(d, Fail(EOF, d.r))
    ELSE IF NextByte(d.r) = ChColon THEN lengthDone(d, Advance(d.r))
    ELSE Continue([d EXCEPT !.buffer = BAppend(@, NextByte(d.r)), !.mark = d.r.off],
                  Advance(d.r))

LengthIteration ==
    /\ pc = "decoding"
    /\ dec.at = "length"
    /\ Take(lengthIteration(dec))

\* one iteration of the loop of decodeList up to its call of parseBencode: the
\* delimiter is read and, unless it ends the list, unread
listIteration(d) ==
    IF AtEOF(d.r) THEN Finish(d, Fail(EOF, d.r))
    ELSE IF NextByte(d.r) = ChE
    THEN ReturnValue(Popped(d), List(Top(d).values), Advance(d.r))
    ELSE Continue([d EXCEPT !.at = "value", !.stack[Len(d.stack)].mark = d.r.off], d.r)

ListIteration ==
    /\ pc = "decoding"
    /\ dec.at = "list"
    /\ Take(listIteration(dec))

\* one iteration of the loop of decodeDictionary up to its call of
\* parseBencode for the key
dictionaryIteration(d) ==
    IF AtEOF(d.r) THEN Finish(d, Fail(EOF, d.r))
    ELSE IF NextByte(d.r) = ChE
    THEN ReturnValue(Popped(d), Dictionary(Top(d).values), Advance(d.r))
    ELSE Continue([d EXCEPT !.at = "value", !.stack[Len(d.stack)].mark = d.r.off], d.r)

DictionaryIteration ==
    /\ pc = "decoding"
    /\ dec.at = "dictionary"
    /\ Take(dictionaryIteration(dec))

NextSteps ==
    \/ ParseBencodeStep
    \/ IntegerIteration
    \/ LengthIteration
    \/ ListIteration
    \/ DictionaryIteration

\* Decode is sequential code: while it has a next step, it takes it
SpecSteps == InitSteps /\ [][NextSteps]_vars /\ WF_vars(NextSteps)

----------------------------------------------------------------------------
(* Properties of the codec *)

MaxOf(S) == IF S = {} THEN 0 ELSE CHOOSE m \in S : \A x \in S : x <= m

\* the length of the longest byte string in v, dictionary keys included
RECURSIVE MaxStringLen(_)
MaxStringLen(v) ==
    IF v.t = "s" THEN BLen(v.v)
    ELSE IF v.t = "l" THEN MaxOf({MaxStringLen(v.v[k]) : k \in 1..Len(v.v)})
    ELSE IF v.t = "d"
    THEN MaxOf({BLen(k) : k \in DOMAIN v.v} \cup {MaxStringLen(v.v[k]) : k \in DOMAIN v.v})
    ELSE 0

\* C1 as stated: for every value, byte strings of any length included, Encode
\* succeeds and Decode of the encoded bytes succeeds and returns an equal value.
RoundTripAnyLength ==
    /\ (pc \in {"encoded", "decoded"} /\ val # Nil) => out.err = NoErr
    /\ (pc = "decoded" /\ val # Nil) => (res.err = NoErr /\ res.val = val)

\* C1 amended: Encode succeeds for every value, and Decode of the encoded bytes
\* succeeds and returns an equal value, with nothing left unread, when no byte
\* string or dictionary key of the value is longer than MaxByteStringLength.
RoundTripWithinLimit ==
    /\ (pc \in {"encoded", "decoded"} /\ val # Nil) => out.err = NoErr
    /\ (pc = "decoded" /\ val # Nil /\ MaxStringLen(val) <= MaxByteStringLength)
        => (res.err = NoErr /\ res.val = val /\ res.rest = <<>>)

\* a byte string of exactly MaxByteStringLength bytes has made the round trip
RoundTripAtLimit ==
    /\ pc = "decoded"
    /\ val = ByteString(Fill(MaxByteStringLength))
    /\ res.err = NoErr
    /\ res.val = val

\* a < b byte-lexicographically: b continues a, or at the first byte where
\* they differ a has the smaller one
ByteOrderLess(a, b) ==
    \E i \in 1..BLen(b) :
        /\ i <= BLen(a) + 1
        /\ \A j \in 1..(i - 1) : BAt(a, j) = BAt(b, j)
        /\ (i = BLen(a) + 1 \/ BAt(a, i) < BAt(b, i))

\* a walk over encoded bytes: whether the keys of every dictionary met are
\* strictly ascending, and the reader after the value; prev is the previous key
\* of the dictionary being walked, as a sequence of at most one byte string
\* the byte string token <n>:<n bytes> at r, of any length, and the reader after it
StringToken(r) ==
    LET len == readLength(r, <<>>)
        n == ParseInt(len.buffer).n
    IN  [s |-> BTake(len.r.rest, n),
         r |-> [rest |-> BDrop(len.r.rest, n), off |-> len.r.off + n]]

RECURSIVE KeysAscending(_), KeysAscendingList(_), KeysAscendingDict(_, _)
KeysAscending(r) ==
    IF NextByte(r) = ChD THEN KeysAscendingDict(Advance(r), <<>>)
    ELSE IF NextByte(r) = ChL THEN KeysAscendingList(Advance(r))
    ELSE IF NextByte(r) = ChI THEN [ok |-> TRUE, r |-> ReaderOf(parseBencode(r))]
    ELSE [ok |-> TRUE, r |-> StringToken(r).r]

KeysAscendingList(r) ==
    IF NextByte(r) = ChE THEN [ok |-> TRUE, r |-> Advance(r)]
    ELSE LET item == KeysAscending(r)
             others == KeysAscendingList(item.r)
         IN  [ok |-> item.ok /\ others.ok, r |-> others.r]

KeysAscendingDict(r, prev) ==
    IF NextByte(r) = ChE THEN [ok |-> TRUE, r |-> Advance(r)]
    ELSE LET key == StringToken(r)
             value == KeysAscending(key.r)
             others == KeysAscendingDict(value.r, <<key.s>>)
         IN  [ok |-> /\ Len(prev) = 1 => ByteOrderLess(prev[1], key.s)
                     /\ value.ok
                     /\ others.ok,
              r |-> others.r]

\* C2: the bytes Encode wrote hold every dictionary's keys in strictly
\* ascending byte order, at every nesting level, and are the same bytes for
\* every order in which the runtime may iterate the maps.
SortedKeysDeterministic ==
    (pc = "encoded" /\ out.err = NoErr) =>
        /\ KeysAscending(NewReader(out.bytes)).ok
        /\ \A sd \in 0..(NumSeeds - 1) : Encode(val, sd) = out

\* a dictionary of three keys has been encoded after the range loop gave its
\* keys in an order that is not the sorted one
EncodedUnsortedRange ==
    /\ pc = "encoded"
    /\ out.err = NoErr
    /\ val.t = "d"
    /\ Cardinality(DOMAIN val.v) = 3
    /\ \E k \in 1..2 : ~ByteOrderLess(MapRange(val.v, seed)[k], MapRange(val.v, seed)[k + 1])

\* the offset of the first 'e' after the first byte of d, 0 when there is none
FirstE(d) ==
    LET es == {k \in 2..BLen(d) : BAt(d, k) = ChE}
    IN  IF es = {} THEN 0 ELSE CHOOSE k \in es : \A j \in es : k <= j

\* d starts with an integer token i<s>e
IsIntegerToken(d) == Len(d) > 0 /\ d[1][1] = ChI /\ FirstE(d) > 0

\* the s of the integer token i<s>e at the start of d
IntegerText(d) == BSlice(d, 1, FirstE(d) - 2)

\* the number the decimal digits s spell
RECURSIVE DecimalValue(_, _)
DecimalValue(s, k) ==
    IF k = 0 THEN 0 ELSE 10 * DecimalValue(s, k - 1) + (BAt(s, k) - 48)

AllDigits(s) == \A k \in 1..BLen(s) : BAt(s, k) \in 48..57

\* C4: Decode of i<s>e fails when s is empty, when s starts with "-0" and when
\* s starts with "0" and is not "0"; it returns 0 for i0e, and the negative
\* number for "-" followed by digits that do not start with 0, as in i-1e.
IntegerTokenRejects ==
    (pc = "decoded" /\ IsIntegerToken(data)) =>
        LET s == IntegerText(data)
            n == BLen(s)
        IN  /\ n = 0 => (res.err # NoErr /\ res.val = Nil)
            /\ (n >= 2 /\ BAt(s, 1) = 45 /\ BAt(s, 2) = 48) => (res.err # NoErr /\ res.val = Nil)
            /\ (n >= 2 /\ BAt(s, 1) = 48) => (res.err # NoErr /\ res.val = Nil)
            /\ (n = 1 /\ BAt(s, 1) = 48) => (res.err = NoErr /\ res.val = Integer(0))
            /\ (n >= 2 /\ BAt(s, 1) = 45 /\ BAt(s, 2) \in 49..57 /\ AllDigits(BDrop(s, 1)))
                => (res.err = NoErr /\ res.val = Integer(0 - DecimalValue(BDrop(s, 1), n - 1)))

\* an integer token with a leading zero has been rejected
LeadingZeroRejected ==
    /\ pc = "decoded"
    /\ IsIntegerToken(data)
    /\ BLen(IntegerText(data)) >= 2
    /\ BAt(IntegerText(data), 1) = 48
    /\ AllDigits(IntegerText(data))
    /\ res.err = [msg |-> "leading zero in integer"]

\* C5: Decode accepts an integer token i<s>e only if s is an optional '-'
\* followed by one or more decimal digits; a '+' or any other byte makes it fail.
IntegerGrammarOnly ==
    (pc = "decoded" /\ IsIntegerToken(data) /\ res.err = NoErr) =>
        LET s == IntegerText(data)
            digits == IF BLen(s) > 0 /\ BAt(s, 1) = 45 THEN BDrop(s, 1) ELSE s
        IN  BLen(digits) >= 1 /\ AllDigits(digits)

\* the 1-based offset of the first byte b in d, 0 when there is none
RECURSIVE OffsetOf(_, _)
OffsetOf(d, b) ==
    IF Len(d) = 0 THEN 0
    ELSE IF d[1][1] = b THEN 1
    ELSE LET k == OffsetOf(Tail(d), b) IN IF k = 0 THEN 0 ELSE d[1][2] + k

\* d starts with a decimal digit: a byte string token is to be read
IsStringToken(d) == Len(d) > 0 /\ d[1][1] \in 48..57

\* the bytes of d before its first ':'
LengthPrefix(d) == BTake(d, OffsetOf(d, 58) - 1)

\* C6: Decode of <n>:<bytes>, n a decimal number within the decoder's limit,
\* returns exactly the n bytes after the colon (none for n = 0) and leaves the
\* reader right after them; it fails when fewer than n bytes follow the colon,
\* when there is no colon, and when the bytes before the colon are not a
\* decimal number.
ByteStringExact ==
    (pc = "decoded" /\ IsStringToken(data)) =>
        LET c == OffsetOf(data, 58)
            prefix == LengthPrefix(data)
            n == DecimalValue(prefix, BLen(prefix))
        IN  /\ c = 0 => (res.err # NoErr /\ res.val = Nil)
            /\ (c > 0 /\ ~AllDigits(prefix)) => (res.err # NoErr /\ res.val = Nil)
            /\ (c > 0 /\ AllDigits(prefix) /\ n <= 10 * 1024 * 1024) =>
                IF BLen(data) - c < n
                THEN res.err # NoErr /\ res.val = Nil
                ELSE /\ res.err = NoErr
                     /\ res.val = ByteString(BSlice(data, c, n))
                     /\ BLen(res.val.v) = n
                     /\ res.pos = c + n
                     /\ res.rest = BDrop(data, c + n)

\* a byte string of one byte has been decoded from an input that goes on after it
ByteStringThenMore ==
    /\ pc = "decoded"
    /\ IsStringToken(data)
    /\ LengthPrefix(data) = <<<<49, 1>>>>
    /\ res.err = NoErr
    /\ BLen(res.val.v) = 1
    /\ res.pos = 3
    /\ BLen(data) > 3

\* C7: a byte string whose declared length is more than 10 * 1024 * 1024 is
\* rejected as too large with the reader still right after the colon, whatever
\* follows the colon; a declared length of exactly 10 * 1024 * 1024 with all of
\* its bytes present is accepted.
LengthLimitBeforeRead ==
    (pc = "decoded" /\ IsStringToken(data) /\ OffsetOf(data, 58) > 0
        /\ AllDigits(LengthPrefix(data))) =>
        LET c == OffsetOf(data, 58)
            n == DecimalValue(LengthPrefix(data), c - 1)
        IN  /\ n > 10 * 1024 * 1024 =>
                /\ res.err = [msg |-> "byte string length too large", n |-> n]
                /\ res.val = Nil
                /\ res.pos = c
                /\ res.rest = BDrop(data, c)
            /\ (n = 10 * 1024 * 1024 /\ BLen(data) - c >= n) =>
                /\ res.err = NoErr
                /\ res.val = ByteString(BSlice(data, c, n))

\* a declared length of one more than the limit has been rejected although
\* nothing follows the colon
OverLimitRejectedWithoutPayload ==
    /\ pc = "decoded"
    /\ data = BAppend(AppendInt(10 * 1024 * 1024 + 1), 58)
    /\ res.err.msg = "byte string length too large"

\* every key of every dictionary in v is a byte string
RECURSIVE KeysAreStrings(_)
KeysAreStrings(v) ==
    IF v.t = "l" THEN \A k \in 1..Len(v.v) : KeysAreStrings(v.v[k])
    ELSE IF v.t = "d"
    THEN \A k \in DOMAIN v.v :
            /\ k \in Seq((0..255) \X (1..(10 * 1024 * 1024)))
            /\ KeysAreStrings(v.v[k])
    ELSE TRUE

\* C8: Decode fails when a key position of a dictionary holds an integer, a
\* list or a dictionary - in a dictionary written entry by entry, at the start
\* of a dictionary and of a dictionary inside a list - and every dictionary in
\* a value Decode returns has byte strings as keys.
NonStringKeyRejected ==
    pc = "decoded" =>
        /\ (\E k \in 1..Len(wire) : wire[k][1].t # "s") =>
                (res.err = [msg |-> "dictionary key is not a string"] /\ res.val = Nil)
        /\ (BLen(data) >= 2 /\ BAt(data, 1) = 100 /\ BAt(data, 2) \in {105, 108, 100}) =>
                (res.err # NoErr /\ res.val = Nil)
        /\ (BLen(data) >= 3 /\ BAt(data, 1) = 108 /\ BAt(data, 2) = 100
                /\ BAt(data, 3) \in {105, 108, 100}) =>
                (res.err # NoErr /\ res.val = Nil)
        /\ res.err = NoErr => KeysAreStrings(res.val)

\* a dictionary whose second key is not a byte string, after a first entry
\* that is well formed, has been rejected for that key
SecondKeyRejected ==
    /\ pc = "decoded"
    /\ Len(wire) = 2
    /\ wire[1][1].t = "s"
    /\ wire[2][1].t # "s"
    /\ res.err = [msg |-> "dictionary key is not a string"]

\* the value each key of the entries has at its last occurrence
LastValues(entries) ==
    [key \in {entries[k][1].v : k \in 1..Len(entries)} |->
        LET last == CHOOSE k \in 1..Len(entries) :
                        /\ entries[k][1].v = key
                        /\ \A j \in (k + 1)..Len(entries) : entries[j][1].v # key
        IN  entries[last][2]]

\* C9: Decode of a dictionary written entry by entry with byte-string keys,
\* the same key written more than once or not, succeeds and maps every key to
\* the value of its last occurrence, and to nothing else.
DuplicateKeyLastWins ==
    (pc = "decoded" /\ Len(wire) > 0 /\ \A k \in 1..Len(wire) : wire[k][1].t = "s") =>
        /\ res.err = NoErr
        /\ res.val = Dictionary(LastValues(wire))
        /\ res.rest = <<>>

\* a dictionary with the same key twice, the two values different, has been decoded
DuplicateKeyDecoded ==
    /\ pc = "decoded"
    /\ Len(wire) = 2
    /\ wire[1][1].t = "s"
    /\ wire[1][1] = wire[2][1]
    /\ wire[1][2] # wire[2][2]
    /\ res.err = NoErr
    /\ res.val.v[wire[1][1].v] = wire[2][2]

\* the bytes that start a value
ValueLeads == {105, 108, 100} \cup (48..57)

\* the 1-based offset in d of a byte that stands where a value must start and
\* starts none, 0 when d has no such byte among these places: the first byte,
\* the first element of a list, the first key of a dictionary (an 'e' there
\* ends the list or dictionary), the value after the key 0:
BadLeadAt(d) ==
    IF Len(d) = 0 THEN 0
    ELSE IF BAt(d, 1) \notin ValueLeads THEN 1
    ELSE IF BLen(d) >= 2 /\ BAt(d, 1) \in {108, 100} /\ BAt(d, 2) \notin ValueLeads \cup {101}
    THEN 2
    ELSE IF BLen(d) >= 4 /\ BTake(d, 3) = Bytes(<<100, 48, 58>>) /\ BAt(d, 4) \notin ValueLeads
    THEN 4
    ELSE 0

\* C10 as stated: when a value position starts with a byte other than 'i',
\* 'l', 'd' or a digit, Decode fails with an error that identifies the byte
\* and its offset in the input.
InvalidLeadByteAndOffset ==
    (pc = "decoded" /\ BadLeadAt(data) > 0) =>
        /\ res.err # NoErr
        /\ "byte" \in DOMAIN res.err
        /\ res.err.byte = BAt(data, BadLeadAt(data))
        /\ "offset" \in DOMAIN res.err
        /\ res.err.offset = BadLeadAt(data) - 1

\* C10 amended: when a value position starts with a byte other than 'i', 'l',
\* 'd' or a digit, Decode fails with the error "invalid bencode prefix" that
\* names the byte and nothing else; the reader has stopped right after the byte.
InvalidLeadByteOnly ==
    (pc = "decoded" /\ BadLeadAt(data) > 0) =>
        /\ res.err = [msg |-> "invalid bencode prefix", byte |-> BAt(data, BadLeadAt(data))]
        /\ res.val = Nil
        /\ res.pos = BadLeadAt(data)

\* a '+' as the first element of a list has been rejected
BadLeadInList ==
    /\ pc = "decoded"
    /\ BadLeadAt(data) = 2
    /\ BAt(data, 1) = 108
    /\ res.err = [msg |-> "invalid bencode prefix", byte |-> 43]

----------------------------------------------------------------------------
(* Properties of the parser *)

\* SHA-1 taken as some fixed function from byte sequences to HashLen bytes, not
\* all of them zero; which function it is does not matter to the property
Sha1(b) == BCat(Run(1 + (BLen(b) % 255), 1), Run(Len(b) % 256, HashLen - 1))

\* C3: when Parse succeeds, InfoHash is SHA-1 of Encode of the info dictionary
\* as decoded from the file, and is not the zero value.
InfoHashIsSha1OfInfo ==
    (pc = "parsed" /\ tor.err = NoErr) =>
        /\ tor.file.InfoHash = Sha1(Encode(Decode(data).val.v[keyInfo], 0).bytes)
        /\ tor.file.InfoHash # ZeroHash

\* the file's content as Decode returns it
Decoded == Decode(data)

\* the file encodes a dictionary; val is then the root Decode gives back
RootIsDict == val.t = "d"

\* Decode of the file gives the dictionary it encodes
DecodedIsRoot == (pc # "nofile" /\ RootIsDict) => (Decoded.err = NoErr /\ Decoded.val = val)

\* Parse from the point where Decode has returned the dictionary root
ParseRoot(root) == ParseAfterDecode([val |-> Dictionary(root), err |-> NoErr])

\* key k of dictionary m is missing or does not hold a value of type t
Bad(m, k, t) == k \notin DOMAIN m \/ m[k].t # t

\* the required keys of root that are missing or of the wrong type; name and
\* piece length are looked for in info when info is a dictionary
BadRequired(root) ==
    {k \in {keyAnnounce} : Bad(root, k, "s")}
    \cup {k \in {keyInfo} : Bad(root, k, "d")}
    \cup (IF Bad(root, keyInfo, "d") THEN {}
          ELSE {k \in {keyName} : Bad(root[keyInfo].v, k, "s")}
               \cup {k \in {keyPieceLength} : Bad(root[keyInfo].v, k, "i")})

HasInfo == RootIsDict /\ ~Bad(val.v, keyInfo, "d")
InfoRoot == val.v[keyInfo].v

\* the byte sequences of chunks put end to end
RECURSIVE Joined(_)
Joined(chunks) ==
    IF chunks = <<>> THEN <<>> ELSE BCat(Head(chunks), Joined(Tail(chunks)))

PieceLengthPositive ==
    (pc = "parsed" /\ tor.err = NoErr) => tor.file.Info.PieceLength > 0

\* C14: when info has no files key, Parse fails unless info holds an integer
\* length, and a successful result has exactly one file, of that length, whose
\* path is the one component name.
SingleFileFromLength ==
    (pc = "parsed" /\ HasInfo /\ keyFiles \notin DOMAIN InfoRoot) =>
        /\ Bad(InfoRoot, keyLength, "i") => (tor.err # NoErr /\ tor.file = NilFile)
        /\ tor.err = NoErr =>
               /\ tor.file.Info.Name = InfoRoot[keyName].v
               /\ tor.file.Info.Files =
                      <<[Length |-> InfoRoot[keyLength].v, Path |-> <<InfoRoot[keyName].v>>]>>

\* a torrent without files was parsed into its one file of 5 bytes
SingleFileParsed ==
    /\ pc = "parsed"
    /\ HasInfo
    /\ keyFiles \notin DOMAIN InfoRoot
    /\ tor.err = NoErr
    /\ tor.file.Info.Files = <<[Length |-> 5, Path |-> <<SomeName.v>>]>>

\* dictionary m without key k
Without(m, k) == [j \in (DOMAIN m) \ {k} |-> m[j]]

\* the decoded root with the length key taken out of its info dictionary
RootWithoutLength ==
    [val.v EXCEPT ![keyInfo] = Dictionary(Without(InfoRoot, keyLength))]

\* the value under files is not a list of dictionaries that each hold an
\* integer length and a list under path
MalformedFiles(files) ==
    \/ files.t # "l"
    \/ \E k \in 1..Len(files.v) :
           \/ files.v[k].t # "d"
           \/ Bad(files.v[k].v, keyLength, "i")
           \/ Bad(files.v[k].v, keyPath, "l")

\* C15: when info holds a files key, Parse returns what it returns for the
\* same file without the length key in info, never announces single-file
\* mode, and fails on a malformed files value whether or not a valid length
\* is there.
FilesKeyDecidesMode ==
    (pc = "parsed" /\ HasInfo /\ keyFiles \in DOMAIN InfoRoot) =>
        /\ tor = ParseRoot(RootWithoutLength)
        /\ \A k \in 1..Len(tor.stdout) : tor.stdout[k] # "single-file mode torrent"
        /\ MalformedFiles(InfoRoot[keyFiles]) => (tor.err # NoErr /\ tor.file = NilFile)

\* a files value that is not a list was rejected although info held a valid length
MalformedFilesBesideLength ==
    /\ pc = "parsed"
    /\ HasInfo
    /\ keyFiles \in DOMAIN InfoRoot
    /\ ~Bad(InfoRoot, keyLength, "i")
    /\ InfoRoot[keyFiles].t # "l"
    /\ tor.err = WrongType(keyFiles, "l", InfoRoot[keyFiles])
    /\ tor.stdout = <<"multi-file mode torrent">>

\* files is a non-empty list of dictionaries, each with a non-negative integer
\* length and a path that is a non-empty list of byte strings
WellFormedFiles(files) ==
    /\ files.t = "l"
    /\ Len(files.v) > 0
    /\ \A k \in 1..Len(files.v) :
           /\ files.v[k].t = "d"
           /\ ~Bad(files.v[k].v, keyLength, "i")
           /\ files.v[k].v[keyLength].v >= 0
           /\ ~Bad(files.v[k].v, keyPath, "l")
           /\ Len(files.v[k].v[keyPath].v) > 0
           /\ \A j \in 1..Len(files.v[k].v[keyPath].v) : files.v[k].v[keyPath].v[j].t = "s"

\* the FileInfo an entry of the files list stands for
FileInfoOf(entry) ==
    [Length |-> entry.v[keyLength].v,
     Path |-> [j \in 1..Len(entry.v[keyPath].v) |-> entry.v[keyPath].v[j].v]]

\* the required keys other than files and length are all well-formed
OtherwiseValid ==
    /\ HasInfo
    /\ BadRequired(val.v) = {}
    /\ ~Bad(InfoRoot, keyPieces, "s")
    /\ BLen(InfoRoot[keyPieces].v) % 20 = 0

\* C16: when files is a well-formed list and the rest of the torrent is valid,
\* Parse succeeds with one FileInfo per entry, in order, holding the entry's
\* length and path.  Does not hold: parseFilePath rejects every decoded path.
MultiFileParsed ==
    (pc = "parsed" /\ OtherwiseValid /\ keyFiles \in DOMAIN InfoRoot
        /\ WellFormedFiles(InfoRoot[keyFiles])) =>
        /\ tor.err = NoErr
        /\ tor.file.Info.Files =
               [k \in 1..Len(InfoRoot[keyFiles].v) |-> FileInfoOf(InfoRoot[keyFiles].v[k])]

\* C17: every successful Parse result has at least one file.  Does not hold:
\* an empty files list is accepted and leaves Files empty.
FilesNonEmpty ==
    (pc = "parsed" /\ tor.err = NoErr) => Len(tor.file.Info.Files) >= 1

\* C18: every file length in a successful Parse result is at least zero.
\* Does not hold: parseFileLength returns any integer.
FileLengthsNonNegative ==
    (pc = "parsed" /\ tor.err = NoErr) =>
        \A k \in 1..Len(tor.file.Info.Files) : tor.file.Info.Files[k].Length >= 0

\* the decoded root with the private key taken out of its info dictionary
RootWithoutPrivate ==
    [val.v EXCEPT ![keyInfo] = Dictionary(Without(InfoRoot, keyPrivate))]

\* C19: in a successful result Private is set and holds the integer under
\* private, 0 included, when info has one, and is not set when the key is
\* absent; the File for an integer private differs from the File for the same
\* torrent without the key.
PrivateThreeWay ==
    (pc = "parsed" /\ tor.err = NoErr) =>
        /\ keyPrivate \notin DOMAIN InfoRoot => tor.file.Info.Private = <<>>
        /\ ~Bad(InfoRoot, keyPrivate, "i") =>
               /\ tor.file.Info.Private = <<InfoRoot[keyPrivate].v>>
               /\ tor.file # ParseRoot(RootWithoutPrivate).file

\* a torrent with private = 0 was parsed and Private is set, to 0
PrivateZeroKept ==
    /\ pc = "parsed"
    /\ tor.err = NoErr
    /\ ~Bad(InfoRoot, keyPrivate, "i")
    /\ InfoRoot[keyPrivate].v = 0
    /\ tor.file.Info.Private = <<0>>

\* the optional keys, private among them, with the type each must have and a
\* well-formed value for each
SoftKeys == OptionalKeys \cup {keyPrivate}

SoftType(k) ==
    CASE k = keyAnnounceList -> "l"
      [] k = keyCreationDate -> "i"
      [] k = keyPrivate -> "i"
      [] OTHER -> "s"

SoftValue(k) ==
    CASE k = keyAnnounceList -> List(<<List(<<SomeUrl>>)>>)
      [] k = keyCreationDate -> Integer(9)
      [] k = keyPrivate -> Integer(1)
      [] OTHER -> SomeName

\* the field of a File that each optional key fills
SoftField(file, k) ==
    CASE k = keyAnnounceList -> file.AnnounceList
      [] k = keyCreationDate -> file.CreationDate
      [] k = keyComment -> file.Comment
      [] k = keyCreatedBy -> file.CreatedBy
      [] k = keyEncoding -> file.Encoding
      [] k = keyPrivate -> file.Info.Private

\* dictionary m with v under key k
With(m, k, v) == [j \in (DOMAIN m) \cup {k} |-> IF j = k THEN v ELSE m[j]]

\* the dictionary the optional key k is looked up in
SoftHome(k) == IF k = keyPrivate THEN InfoRoot ELSE val.v

\* the decoded root with a well-formed value put under the optional key k
RootWithSoftValue(k) ==
    IF k = keyPrivate
    THEN [val.v EXCEPT ![keyInfo] = Dictionary(With(InfoRoot, k, SoftValue(k)))]
    ELSE With(val.v, k, SoftValue(k))

\* Parse of the same file with a well-formed value under the optional key k
ParseWithSoftValue(k) == ParseRoot(RootWithSoftValue(k))

\* a single-file torrent whose required keys are all valid
ValidSingleFile ==
    /\ OtherwiseValid
    /\ InfoRoot[keyPieceLength].v > 0
    /\ keyFiles \notin DOMAIN InfoRoot
    /\ ~Bad(InfoRoot, keyLength, "i")
    /\ InfoRoot[keyLength].v >= 0

\* Parse skipped the optional key k exactly as it would have used it: fixed is
\* the Parse of the same file with k well-formed
SkippedAlone(k, fixed) ==
    /\ (tor.err = NoErr) <=> (fixed.err = NoErr)
    /\ tor.err = NoErr =>
           /\ SoftField(tor.file, k) = SoftField(ZeroFile, k)
           /\ \A j \in SoftKeys \ {k} : SoftField(tor.file, j) = SoftField(fixed.file, j)

\* C20: a torrent with valid required keys parses whatever its optional keys
\* hold; and for each optional key that is missing or of the wrong type,
\* Parse succeeds exactly when it does with that key well-formed, leaves the
\* key's field at its zero value, and gives every other optional field the
\* value it has with that key well-formed.
OptionalFieldsSoft ==
    (pc = "parsed" /\ HasInfo) =>
        /\ ValidSingleFile => tor.err = NoErr
        /\ \A k \in SoftKeys :
               Bad(SoftHome(k), k, SoftType(k)) => SkippedAlone(k, ParseWithSoftValue(k))

\* a comment of the wrong type was skipped and the encoding after it was kept
CommentSkippedEncodingKept ==
    /\ pc = "parsed"
    /\ tor.err = NoErr
    /\ ~Bad(val.v, keyComment, "i")
    /\ tor.file.Comment = ZeroFile.Comment
    /\ ~Bad(val.v, keyEncoding, "s")
    /\ tor.file.Encoding = val.v[keyEncoding].v
    /\ tor.file.Encoding # ZeroFile.Encoding

\* the elements of sequence q that are of bencode type t, in order
OfType(q, t) == SelectSeq(q, LAMBDA e : e.t = t)

\* the byte strings of a tier, in order
UrlsOf(tier) == [j \in 1..Len(OfType(tier.v, "s")) |-> OfType(tier.v, "s")[j].v]

\* the URL lists of the tiers of raw that are lists, in order
TiersOf(raw) == [k \in 1..Len(OfType(raw.v, "l")) |-> UrlsOf(OfType(raw.v, "l")[k])]

\* the decoded root with the announce-list key taken out
RootWithoutAnnounceList == Without(val.v, keyAnnounceList)

\* C21: announce-list never decides whether Parse succeeds; when it is a list,
\* a successful result holds the list tiers in order, each with its byte
\* strings in order, the tiers without any byte string left out, so that no
\* tier of the result is empty.
AnnounceListRecovered ==
    (pc = "parsed" /\ RootIsDict /\ keyAnnounceList \in DOMAIN val.v) =>
        /\ (tor.err = NoErr) <=> (ParseRoot(RootWithoutAnnounceList).err = NoErr)
        /\ (tor.err = NoErr /\ val.v[keyAnnounceList].t = "l") =>
               /\ tor.file.AnnounceList =
                      SelectSeq(TiersOf(val.v[keyAnnounceList]), LAMBDA u : u # <<>>)
               /\ \A k \in 1..Len(tor.file.AnnounceList) : Len(tor.file.AnnounceList[k]) > 0

\* an announce-list with a tier of no URL between two tiers was parsed into
\* those two tiers, the second without its entry that is no byte string
TiersRecovered ==
    /\ pc = "parsed"
    /\ tor.err = NoErr
    /\ RootIsDict
    /\ ~Bad(val.v, keyAnnounceList, "l")
    /\ Len(val.v[keyAnnounceList].v) = 3
    /\ tor.file.AnnounceList = << <<SomeName.v>>, <<SomeUrl.v, SomeName.v>> >>

\* byte c occurs in the byte sequence b (a sequence of runs)
HasByte(b, c) == \E k \in 1..Len(b) : b[k][1] = c

\* b is one name component: no separator in it, and not the parent directory
OneComponent(b) == ~HasByte(b, 47) /\ ~HasByte(b, 92) /\ b # Bytes(<<46, 46>>)

\* C22: the name of a successful Parse result, and the path component made
\* from it in single-file mode, is one name component without a separator or
\* a parent-directory step.  Does not hold: parseName stores the raw name.
NameIsOneComponent ==
    (pc = "parsed" /\ tor.err = NoErr) =>
        /\ OneComponent(tor.file.Info.Name)
        /\ keyFiles \notin DOMAIN InfoRoot =>
               \A k \in 1..Len(tor.file.Info.Files[1].Path) :
                   OneComponent(tor.file.Info.Files[1].Path[k])

\* C24: Parse writes nothing to the console, whatever the file holds.  Does
\* not hold: parseFiles prints the mode and each skipped optional key prints
\* a line.
ParseWritesNothing ==
    pc = "parsed" => tor.stdout = <<>>

\* C27: the required fields are checked in the order announce, info, name,
\* piece length, pieces, files: when the first four are well-formed and pieces
\* is missing or not a byte string, the error Parse returns is the one about
\* pieces, whatever files and length hold.  Does not hold: parseInfo looks at
\* files before pieces.
PiecesCheckedBeforeFiles ==
    (pc = "parsed" /\ HasInfo /\ BadRequired(val.v) = {} /\ Bad(InfoRoot, keyPieces, "s")) =>
        /\ tor.file = NilFile
        /\ "key" \in DOMAIN tor.err
        /\ tor.err.key = keyPieces

\* C28: a file that holds a complete value followed by further bytes decodes
\* to that value without an error, the further bytes left unread, and Parse
\* returns for it what it returns for the file without them.
TrailingBytesIgnored ==
    (pc = "parsed" /\ wire # <<>>) =>
        /\ Decoded.err = NoErr
        /\ Decoded.val = val
        /\ Decoded.rest = wire
        /\ tor = Parse(TRUE, Encode(val, seed).bytes)

\* a torrent file with bytes after its root dictionary was parsed into a File
TrailedTorrentParsed ==
    /\ pc = "parsed"
    /\ wire # <<>>
    /\ val = Dictionary(GoodRoot)
    /\ BLen(data) > BLen(Encode(val, seed).bytes)
    /\ tor.err = NoErr
    /\ tor.file # NilFile
    /\ tor.file.Announce = SomeUrl.v

\* C30: on the File of a successful Parse, IsMultiFile is true exactly when
\* the info dictionary held the files key, however many entries the list has.
\* Does not hold: IsMultiFile counts the entries.
IsMultiFileReportsMode ==
    pc = "asked" => (out.multi <=> keyFiles \in DOMAIN InfoRoot)

----------------------------------------------------------------------------
(* Further properties of the codec *)

\* C23: when a value, or a value inside it, is of an unsupported type,
\* Encode returns an error and no bytes, and EncodeTo returns an error and
\* leaves the buffer holding what it held before the call.  Does not hold: the
\* bytes written before the unsupported value was reached stay in the buffer.
FailedEncodeWritesNothing ==
    (pc = "written" /\ val \in Unencodable) =>
        /\ Encode(val, seed).err # NoErr
        /\ Encode(val, seed).bytes = <<>>
        /\ out.err # NoErr
        /\ out.bytes = data

\* C29: an input that is one byte-string token, accepted with nothing left
\* unread, is the encoding of the string it decodes to, byte for byte.  Does
\* not hold: a length with leading zeros is accepted.
ByteStringSpelledOnce ==
    (pc = "decoded" /\ res.err = NoErr /\ res.rest = <<>> /\ res.val.t = "s") =>
        /\ Encode(res.val, 0).err = NoErr
        /\ Encode(res.val, 0).bytes = data

\* how many prefix lengths are tried at each end of an input too long to
\* try them all
EndWindow == 3

\* the lengths of the proper prefixes of b that are tried: all of them, or for
\* a long b the shortest and the longest
ProperPrefixLengths(b) ==
    IF BLen(b) <= 2 * EndWindow THEN 0..(BLen(b) - 1)
    ELSE (0..EndWindow) \cup ((BLen(b) - EndWindow)..(BLen(b) - 1))

RejectedOutright(result) == result.err # NoErr /\ result.val = Nil

\* C26: when Decode accepts an input and consumes all of it, Decode returns an
\* error and no value on every proper prefix of that input, the empty one
\* included.
TruncatedInputRejected ==
    (pc = "decoded" /\ res.err = NoErr /\ res.rest = <<>>) =>
        \A k \in ProperPrefixLengths(data) : RejectedOutright(Decode(BTake(data, k)))

\* a list holding an integer was accepted whole; cut before its last 'e', or
\* inside the integer, it is refused
TruncatedListRefused ==
    /\ pc = "decoded"
    /\ res.err = NoErr
    /\ res.rest = <<>>
    /\ res.val.t = "l"
    /\ Len(res.val.v) = 1
    /\ res.val.v[1].t = "i"
    /\ Decode(BTake(data, BLen(data) - 1)).err = EOF
    /\ Decode(BTake(data, 2)).err # NoErr

\* the reader is inside the input: what it has read and what is left make up
\* the input
CursorInside == dec.r.off >= 0 /\ dec.r.off + BLen(dec.r.rest) = BLen(data)

\* the loop Decode is in has consumed input since its last iteration began
\* (mark); a loop around it waits for a value that began no earlier than its
\* own iteration, so it will have consumed input when that value is returned
LoopsConsume ==
    /\ dec.at \in {"integer", "length"} => dec.r.off > dec.mark
    /\ dec.at \in {"list", "dictionary"} => dec.r.off > Top(dec).mark
    /\ \A k \in 1..(Len(dec.stack) - 1) : dec.stack[k + 1].mark >= dec.stack[k].mark
    /\ (dec.at \in {"integer", "length"} /\ dec.stack # <<>>) => dec.mark >= Top(dec).mark

\* C25: while Decode runs its cursor stays within the input, every loop has
\* consumed at least one byte per iteration, and the steps taken are bounded
\* by the bytes read; Decode ends, with the value or the error of parseBencode.
DecodeTerminates ==
    /\ [](pc \in {"decoding", "stepped"} =>
            /\ CursorInside
            /\ LoopsConsume
            /\ dec.steps <= 2 * dec.r.off + 1
            /\ pc = "stepped" => res = Decode(data))
    /\ <>(pc = "stepped")

\* Decode has ended on a dictionary inside a list, after a step for each
\* value and each loop iteration
NestedListStepped ==
    /\ pc = "stepped"
    /\ res.err = NoErr
    /\ res.val.t = "l"
    /\ Len(res.val.v) = 1
    /\ res.val.v[1].t = "d"
    /\ DOMAIN res.val.v[1].v # {}
    /\ dec.r.off = BLen(data)
    /\ dec.steps > 6

====
